---------------------------- MODULE Spec2Model ----------------------------
(***************************************************************************)
(* Apollo job orchestrator: the RPC server (server/jobs_server.go), its    *)
(* boot-time Reload, the in-process cron scheduler (package scheduler) and *)
(* the persistence store (scheduler/store.go).                             *)
(*                                                                         *)
(* Strings of the program are strings here; a cron spec is the sequence of *)
(* its whitespace-separated fields ("" is <<>>); a job id is a tuple:      *)
(* <<"job", name, unix_seconds>> is fmt.Sprintf("job-%s-%d", ...), <<s>>   *)
(* is the plain string s and <<>> is "".                                   *)
(***************************************************************************)
EXTENDS Integers, Sequences, FiniteSets, TLC

VARIABLES
    conf,     \* what NewJobsServer built: the provider, and whether the store opened
    phase,    \* "boot" (Reload running, listener not started), "serving", "down"
    mu,       \* Scheduler.mu: "free", or the worker that holds it
    entries,  \* Scheduler.entries: a function name -> cron.EntryID
    cron,     \* the cron engine's entries: the live triggers
    jobs,     \* the rows of table apollo_jobs
    execs,    \* the rows of table apollo_executions, in insertion order
    now,      \* time.Now().Unix()
    rpc,      \* per RPC worker: the handler in progress and where it stands
    boot,     \* Reload: where it stands and the records still to visit
    fires,    \* the callbacks of firings in progress, by goroutine slot
    accepted, \* history: <<name, spec>> of the repeatable jobs RunJob answered
              \* "scheduled" and no DeleteJob was asked for since
    lastReload, \* history: what the last completed Reload saw and left
    fired,    \* history: <<name, tick>> of the firings the engine started
    runner,   \* the runner backend: the Secret Merger's inputs, the Secrets
              \* it holds, and the last RunJob made on it directly
    unreg     \* history: the names a returned DeleteJob or empty
              \* UpdateSchedule took out of the scheduler, RunJob not having
              \* registered them since

vars == <<conf, phase, mu, entries, cron, jobs, execs, now, rpc, boot, fires,
          accepted, lastReload, fired, runner, unreg>>

-----------------------------------------------------------------------------
(* Bounds of the model. *)

MaxTime == 2          \* the clock stops at this second
MaxExec == 2          \* apollo_executions holds at most this many rows
MaxCron == 3          \* the cron engine holds at most this many entries
MaxInflight == 2      \* callbacks of firings in progress at once
MaxDeclared == 3      \* secrets the config declares
MaxFetched == 2       \* secrets the provider returns
MaxFields == 6        \* whitespace-separated fields of a raw cron spec
MaxResLen == 5        \* characters of a cpu or memory string

Workers == {"w1", "w2"}
Names == {"a", "b"}
FireSlots == 1..MaxInflight

-----------------------------------------------------------------------------
(* Cron specs, as field sequences. *)

SpecEmpty == <<>>
SpecEvery == <<"*", "*", "*", "*", "*", "*">>
SpecEven == <<"*/2", "*", "*", "*", "*", "*">>
SpecFive == <<"*", "*", "*", "*", "*">>
SpecBad == <<"every", "minute">>

CronFields == {"*", "*/2", "0"}

\* cron.New(cron.WithSeconds()): the parser wants exactly six fields, each a
\* field expression; anything else is the error AddFunc returns.
ParseOK(spec) ==
    /\ Len(spec) = 6
    /\ \A i \in 1..Len(spec) : spec[i] \in CronFields

\* Schedule.Next(t): the first activation strictly after second t, decided
\* here by the seconds field alone.
NextAfter(spec, t) ==
    CASE spec[1] = "*" -> t + 1
      [] spec[1] = "*/2" -> IF (t + 1) % 2 = 0 THEN t + 1 ELSE t + 2
      [] OTHER -> ((t \div 60) + 1) * 60

-----------------------------------------------------------------------------
(* The configuration (config.Load and jobs.yml). *)

NilRes == [nil |-> TRUE, cpu |-> "", memory |-> ""]
Res(c, m) == [nil |-> FALSE, cpu |-> c, memory |-> m]

\* jobs.yml "jobs": the per-name resources, in declaration order
CfgJobs == <<[name |-> "report", cpu |-> "2", memory |-> "1Gi"]>>

\* Config.GetResourcesFor: the first entry of that name, else the defaults
GetResourcesFor(jobName) ==
    LET hits == {i \in 1..Len(CfgJobs) : CfgJobs[i].name = jobName}
    IN  IF hits # {}
        THEN LET i == CHOOSE k \in hits : \A j \in hits : k <= j
             IN  [cpu |-> CfgJobs[i].cpu, memory |-> CfgJobs[i].memory]
        ELSE [cpu |-> "250m", memory |-> "256Mi"]

\* NewJobsServer: the scheduler exists on the local provider (the store's
\* driver and path are never empty: config.Load defaults them); the store
\* exists when, moreover, OpenStore succeeded.
LocalStore == [provider |-> "local", store |-> TRUE]
LocalNoStore == [provider |-> "local", store |-> FALSE]
Cloud == [provider |-> "cloudrun", store |-> FALSE]

HasSched == conf.provider = "local"
HasStore == conf.store

-----------------------------------------------------------------------------
(* Requests. JobType is the wire enum; a value outside it is "UNKNOWN". *)

OneTime == "JOB_TYPE_ONE_TIME"
Repeatable == "JOB_TYPE_REPEATABLE"

\* mapJobType
mapJobType(t) == IF t = Repeatable THEN "repeatable" ELSE "one_time"

\* JobOverrides: nil, or args, env (name/value pairs, in order) and resources
\* (nil, or cpu and memory)
NoOverrides == [nil |-> TRUE, args |-> <<>>, env |-> <<>>, resources |-> NilRes]
Overrides(a, e, rs) == [nil |-> FALSE, args |-> a, env |-> e, resources |-> rs]
EnvVar(n, v) == [name |-> n, value |-> v]

RunReqOv(n, c, a, rs, t, s, j, ov) ==
    [op |-> "RunJob", name |-> n, command |-> c, args_base64 |-> a,
     resources |-> rs, type |-> t, schedule |-> s, job_id |-> j,
     overrides |-> ov]
RunReq(n, c, a, rs, t, s, j) == RunReqOv(n, c, a, rs, t, s, j, NoOverrides)
DelReq(n) ==
    [op |-> "DeleteJob", name |-> n, command |-> "", args_base64 |-> "",
     resources |-> NilRes, type |-> OneTime, schedule |-> SpecEmpty, job_id |-> <<>>,
     overrides |-> NoOverrides]
UpdReq(n, s) ==
    [op |-> "UpdateSchedule", name |-> n, command |-> "", args_base64 |-> "",
     resources |-> NilRes, type |-> OneTime, schedule |-> s, job_id |-> <<>>,
     overrides |-> NoOverrides]
ListReq ==
    [op |-> "ListSchedules", name |-> "", command |-> "", args_base64 |-> "",
     resources |-> NilRes, type |-> OneTime, schedule |-> SpecEmpty, job_id |-> <<>>,
     overrides |-> NoOverrides]
NoReq ==
    [op |-> "none", name |-> "", command |-> "", args_base64 |-> "",
     resources |-> NilRes, type |-> OneTime, schedule |-> SpecEmpty, job_id |-> <<>>,
     overrides |-> NoOverrides]

\* runner.JobRequest as RunJob builds it (lines 38-51): JobID and Overrides
\* are not copied from the wire request; resources are filled from the
\* config, keyed by the command, when cpu and memory are both empty.
NoR ==
    [name |-> "", command |-> "", args_base64 |-> "", cpu |-> "", memory |-> "",
     type |-> "one_time", schedule |-> SpecEmpty, jobID |-> <<>>,
     overrides |-> NoOverrides]

BuildR(req) ==
    LET dflt == GetResourcesFor(req.command)
        fill == req.resources.cpu = "" /\ req.resources.memory = ""
    IN  [name |-> req.name, command |-> req.command,
         args_base64 |-> req.args_base64,
         cpu |-> IF fill THEN dflt.cpu ELSE req.resources.cpu,
         memory |-> IF fill THEN dflt.memory ELSE req.resources.memory,
         type |-> mapJobType(req.type), schedule |-> req.schedule,
         jobID |-> <<>>, overrides |-> NoOverrides]

\* line 52: the repeatable path is taken
TakesSchedulePath(r) ==
    r.type = "repeatable" /\ HasSched /\ r.schedule # SpecEmpty

-----------------------------------------------------------------------------
(* The store (scheduler/store.go). A call whose context is done fails in   *)
(* database/sql before it reaches the database, and changes nothing.       *)

JobRecord(n, c, a, s, cp, m) ==
    [name |-> n, command |-> c, args_base64 |-> a, cron_spec |-> s,
     cpu |-> cp, memory |-> m]

\* Store.Upsert: insert, or replace the row of the same name
StoreUpsert(rows, rec) == {x \in rows : x.name # rec.name} \cup {rec}

\* Store.Delete: the rows left (no row affected is the error "not found")
StoreDelete(rows, n) == {x \in rows : x.name # n}

NameOrder == <<"a", "b">>
NameRank(n) == CHOOSE i \in 1..Len(NameOrder) : NameOrder[i] = n

\* Store.List: SELECT ... ORDER BY name
RECURSIVE StoreList(_)
StoreList(rows) ==
    IF rows = {} THEN <<>>
    ELSE LET first == CHOOSE x \in rows :
                        \A y \in rows : NameRank(x.name) <= NameRank(y.name)
         IN  <<first>> \o StoreList(rows \ {first})

\* a faulty variant: the id is a key, a row of the same id is replaced
AddExecutionReplaces(rows, e) ==
    IF \E i \in 1..Len(rows) : rows[i].id = e.id
    THEN [i \in 1..Len(rows) |-> IF rows[i].id = e.id THEN e ELSE rows[i]]
    ELSE Append(rows, e)

\* Store.AddExecution: a plain INSERT, no key
AddExecution(rows, e) == Append(rows, e)

\* JobsServer.recordExecution builds this record
ExecutionRecord(r, id, result, runErr, start, end) ==
    [id |-> id, name |-> r.name, command |-> r.command,
     args_base64 |-> r.args_base64, cpu |-> r.cpu, memory |-> r.memory,
     status |-> IF runErr # "" THEN "error" ELSE "success",
     error |-> runErr, result |-> result,
     started_at |-> start, finished_at |-> end]

-----------------------------------------------------------------------------
(* The scheduler (package scheduler: New, Schedule, Delete).               *)

NoEntries == [n \in {} |-> 0]

\* a faulty variant: the map entry goes, the engine keeps the trigger
CronAfterRemoveKeeps(cr, en, name) == cr

\* lines 123-126 and 138-141: drop the name's trigger, if it has one
CronAfterRemove(cr, en, name) ==
    IF name \in DOMAIN en THEN {e \in cr : e.id # en[name]} ELSE cr

EntriesAfterRemove(en, name) ==
    [n \in DOMAIN en \ {name} |-> en[n]]

\* the EntryID cron hands out: one no live entry has
NewEntryID(cr) ==
    CHOOSE i \in 1..(Cardinality(cr) + 1) :
        /\ \A e \in cr : e.id # i
        /\ \A j \in 1..(Cardinality(cr) + 1) : (\A e \in cr : e.id # j) => i <= j

\* a faulty variant: the new trigger is due at once, in the current second
CronEntryDueNow(id, name, spec, kind, r) ==
    [id |-> id, name |-> name, spec |-> spec, kind |-> kind, r |-> r,
     next |-> now]

\* what cron.AddFunc adds: the trigger, with the closure it will call
\* (kind "run": RunJob's callback; kind "reload": Reload's callback)
CronEntry(id, name, spec, kind, r) ==
    [id |-> id, name |-> name, spec |-> spec, kind |-> kind, r |-> r,
     next |-> NextAfter(spec, now)]

\* a faulty variant: AddFunc installs nothing
CronAfterAddNone(cr, name, spec, kind, r) == cr

\* lines 127-131: AddFunc and the map update, for a spec that parses
CronAfterAdd(cr, name, spec, kind, r) ==
    cr \cup {CronEntry(NewEntryID(cr), name, spec, kind, r)}

EntriesAfterAdd(en, cr, name) ==
    [n \in DOMAIN en \cup {name} |-> IF n = name THEN NewEntryID(cr) ELSE en[n]]

\* the live triggers of a name
Triggers(name) == {e \in cron : e.name = name}

\* the scheduler's entries as <<name, spec>> pairs
TriggerSet(cr) == {<<e.name, e.spec>> : e \in cr}

-----------------------------------------------------------------------------
(* The Secret Merger (secrets/utils.go) and the runner backends            *)
(* (runner/local.go, runner/cloudrun.go). A secret is a key and a value,   *)
(* a config-declared secret a name and a value, the process environment a  *)
(* function from names to values ("" when unset).                          *)

Secret(k, v) == [key |-> k, value |-> v]
SecretConfig(n, v) == [name |-> n, value |-> v]

\* strings.Contains(v, "$")
ContainsDollar(v) == \E i \in 1..Len(v) : SubSeq(v, i, i) = "$"

\* lines 14-17: the map of the provider's secrets, a later entry of a key
\* replacing an earlier one
SecretMap(secrets) ==
    [k \in {secrets[i].key : i \in DOMAIN secrets} |->
        secrets[CHOOSE i \in DOMAIN secrets :
                   /\ secrets[i].key = k
                   /\ \A j \in DOMAIN secrets : secrets[j].key = k => j <= i]]

\* lines 26-33: the provider's secret of every "$" entry whose name the
\* provider has, in declaration order, once per entry
RECURSIVE Injected(_, _)
Injected(secretMap, secretsConfig) ==
    IF secretsConfig = <<>> THEN <<>>
    ELSE LET c == Head(secretsConfig)
         IN  (IF c.name \in DOMAIN secretMap /\ ContainsDollar(c.value)
              THEN <<secretMap[c.name]>> ELSE <<>>)
             \o Injected(secretMap, Tail(secretsConfig))

\* lines 36-49: the entries whose name was not injected: the literal, or
\* the environment's value unless empty
RECURSIVE Remaining(_, _, _)
Remaining(injectedSecrets, secretsConfig, env) ==
    IF secretsConfig = <<>> THEN <<>>
    ELSE LET c == Head(secretsConfig)
         IN  (IF c.name \in injectedSecrets THEN <<>>
              ELSE IF ~ContainsDollar(c.value) THEN <<Secret(c.name, c.value)>>
              ELSE IF env[c.name] = "" THEN <<>>
              ELSE <<Secret(c.name, env[c.name])>>)
             \o Remaining(injectedSecrets, Tail(secretsConfig), env)

\* FilterSecrets, with os.Getenv read from env
FilterSecrets(secrets, secretsConfig, env) ==
    LET inj == Injected(SecretMap(secrets), secretsConfig)
    IN  inj \o Remaining({inj[i].key : i \in DOMAIN inj}, secretsConfig, env)

\* cfg.Jobs.Cmd and cfg.Jobs.Image
JobsCmd == "rover"
JobsImage == "synehq/analytics"

\* "-e", KEY=VALUE for each element of a list of secrets or of env vars
RECURSIVE EnvFlags(_)
EnvFlags(pairs) ==
    IF pairs = <<>> THEN <<>>
    ELSE <<"-e", Head(pairs)[1] \o "=" \o Head(pairs)[2]>> \o EnvFlags(Tail(pairs))

\* LocalRunner.AppendSecrets
AppendSecrets(secrets, args) ==
    args \o EnvFlags([i \in DOMAIN secrets |-> <<secrets[i].key, secrets[i].value>>])

\* LocalRunner.AppendOverrides
AppendOverrides(req, args) ==
    IF ~req.overrides.nil /\ Len(req.overrides.env) > 0
    THEN args \o EnvFlags([i \in DOMAIN req.overrides.env |->
                  <<req.overrides.env[i].name, req.overrides.env[i].value>>])
    ELSE args

\* LocalRunner.LimitResources
LimitResources(req, args) ==
    LET resources == IF ~req.overrides.nil /\ ~req.overrides.resources.nil
                     THEN [cpu |-> req.overrides.resources.cpu,
                           memory |-> req.overrides.resources.memory]
                     ELSE [cpu |-> req.cpu, memory |-> req.memory]
    IN  args \o <<"--memory", resources.memory, "--cpus", resources.cpu>>

\* a faulty variant: the overrides' -e flags go before the secrets'
LocalArgsSecretsLast(secrets, cmd, req) ==
    LET a1 == AppendOverrides(req, <<"run", "--rm">>)
        a2 == AppendSecrets(secrets, a1)
        a3 == a2 \o <<JobsImage, cmd, req.command>>
        a4 == IF req.args_base64 # "" THEN Append(a3, req.args_base64) ELSE a3
        a5 == LimitResources(req, a4)
    IN  IF ~req.overrides.nil /\ Len(req.overrides.args) > 0
        THEN a5 \o req.overrides.args
        ELSE a5

\* LocalRunner.RunJob lines 23-52: the arguments handed to docker
LocalArgs(secrets, cmd, req) ==
    LET a1 == AppendSecrets(secrets, <<"run", "--rm">>)
        a2 == AppendOverrides(req, a1)
        a3 == a2 \o <<JobsImage, cmd, req.command>>
        a4 == IF req.args_base64 # "" THEN Append(a3, req.args_base64) ELSE a3
        a5 == LimitResources(req, a4)
    IN  IF ~req.overrides.nil /\ Len(req.overrides.args) > 0
        THEN a5 \o req.overrides.args
        ELSE a5

\* BatchRunner.RunJob lines 61-72: the environment map of the runnable
CloudEnv(secrets, req) ==
    LET ovs == IF ~req.overrides.nil THEN req.overrides.env ELSE <<>>
        keys == {secrets[i].key : i \in DOMAIN secrets}
                  \cup {ovs[i].name : i \in DOMAIN ovs}
        Last(sq, P(_)) == CHOOSE i \in DOMAIN sq :
                            P(sq[i]) /\ \A j \in DOMAIN sq : P(sq[j]) => j <= i
    IN  [k \in keys |->
           IF \E i \in DOMAIN ovs : ovs[i].name = k
           THEN LET IsK(x) == x.name = k IN ovs[Last(ovs, IsK)].value
           ELSE LET IsK(x) == x.key = k IN secrets[Last(secrets, IsK)].value]

\* The helpers of the cloud backend (cloudrun.go 283-322), on strings.
CharAt(s, i) == SubSeq(s, i, i)

\* unicode.IsSpace, for the characters the model feeds
IsSpace(c) == c \in {" ", "\t"}

\* strings.Fields: the maximal runs of non-space characters, in order
RECURSIVE FieldsFrom(_, _, _, _)
FieldsFrom(s, i, cur, acc) ==
    IF i > Len(s) THEN (IF cur = "" THEN acc ELSE Append(acc, cur))
    ELSE IF IsSpace(CharAt(s, i))
         THEN FieldsFrom(s, i + 1, "",
                         IF cur = "" THEN acc ELSE Append(acc, cur))
    ELSE FieldsFrom(s, i + 1, cur \o CharAt(s, i), acc)

Fields(s) == FieldsFrom(s, 1, "", <<>>)

\* strings.Join
RECURSIVE Join(_, _)
Join(elems, sep) ==
    IF elems = <<>> THEN ""
    ELSE IF Len(elems) = 1 THEN elems[1]
    ELSE elems[1] \o sep \o Join(Tail(elems), sep)

\* a faulty variant: the last field is dropped, not the first
toFiveFieldCronDropsLast(in) ==
    LET fields == Fields(in)
    IN  IF Len(fields) = 6 THEN Join(SubSeq(fields, 1, 5), " ") ELSE in

toFiveFieldCron(in) ==
    LET fields == Fields(in)
    IN  IF Len(fields) = 6 THEN Join(Tail(fields), " ") ELSE in

HasSuffix(s, suffix) ==
    /\ Len(s) >= Len(suffix)
    /\ SubSeq(s, Len(s) - Len(suffix) + 1, Len(s)) = suffix

TrimSuffix(s, suffix) ==
    IF HasSuffix(s, suffix) THEN SubSeq(s, 1, Len(s) - Len(suffix)) ELSE s

UpperOf(c) ==
    CASE c = "m" -> "M"
      [] c = "i" -> "I"
      [] c = "g" -> "G"
      [] OTHER   -> c

\* strings.ToUpper
RECURSIVE ToUpper(_)
ToUpper(s) ==
    IF s = "" THEN "" ELSE UpperOf(CharAt(s, 1)) \o ToUpper(SubSeq(s, 2, Len(s)))

Digits == {"0", "1", "2", "3", "4", "5", "6", "7", "8", "9"}

DigitVal(c) ==
    CASE c = "0" -> 0 [] c = "1" -> 1 [] c = "2" -> 2 [] c = "3" -> 3
      [] c = "4" -> 4 [] c = "5" -> 5 [] c = "6" -> 6 [] c = "7" -> 7
      [] c = "8" -> 8 [] c = "9" -> 9

RECURSIVE Decimal(_)
Decimal(s) ==
    IF s = "" THEN 0
    ELSE 10 * Decimal(SubSeq(s, 1, Len(s) - 1)) + DigitVal(CharAt(s, Len(s)))

\* strconv.ParseInt(s, 10, 64): an optional sign, then one digit or more and
\* nothing else (the strings of the model are too short to leave int64)
ParseInt(s) ==
    LET signed == Len(s) > 0 /\ CharAt(s, 1) \in {"+", "-"}
        body   == IF signed THEN SubSeq(s, 2, Len(s)) ELSE s
    IN  IF body # "" /\ \A i \in 1..Len(body) : CharAt(body, i) \in Digits
        THEN [err |-> FALSE,
              val |-> IF signed /\ CharAt(s, 1) = "-" THEN 0 - Decimal(body)
                      ELSE Decimal(body)]
        ELSE [err |-> TRUE, val |-> 0]

parseCPU(cpu) ==
    LET m == HasSuffix(cpu, "m")
        c == IF m THEN TrimSuffix(cpu, "m") ELSE cpu
    IN  IF m /\ ~ParseInt(c).err THEN ParseInt(c).val
        ELSE IF ~ParseInt(c).err THEN ParseInt(c).val * 1000
        ELSE 1000

\* a faulty variant: GiB are not converted to MiB
parseMemoryInGiB(memory) ==
    LET up == ToUpper(memory)
        gi == HasSuffix(up, "GI")
        m1 == IF gi THEN TrimSuffix(up, "GI") ELSE up
        mi == HasSuffix(m1, "MI")
        m2 == IF mi THEN TrimSuffix(m1, "MI") ELSE m1
    IN  IF gi /\ ~ParseInt(m1).err THEN ParseInt(m1).val
        ELSE IF mi /\ ~ParseInt(m2).err THEN ParseInt(m2).val
        ELSE 512

parseMemory(memory) ==
    LET up == ToUpper(memory)
        gi == HasSuffix(up, "GI")
        m1 == IF gi THEN TrimSuffix(up, "GI") ELSE up
        mi == HasSuffix(m1, "MI")
        m2 == IF mi THEN TrimSuffix(m1, "MI") ELSE m1
    IN  IF gi /\ ~ParseInt(m1).err THEN ParseInt(m1).val * 1024
        ELSE IF mi /\ ~ParseInt(m2).err THEN ParseInt(m2).val
        ELSE 512

\* the runner before main has built it: the provider's secrets as fetched,
\* the config's declarations, the environment; then what it holds
NoEnv == [n \in {} |-> ""]

NoRunner ==
    [pc |-> "ready", fetched |-> <<>>, declared |-> <<>>, env |-> NoEnv,
     Secrets |-> <<>>, req |-> NoR, argv |-> <<>>, envMap |-> NoEnv,
     helper |-> "none", in |-> "", out |-> ""]

NewRunner(fetched, declared, env) ==
    [NoRunner EXCEPT !.pc = "new", !.fetched = fetched, !.declared = declared,
                     !.env = env]

\* main (cloudrun.go 613-622): the Secret Merger runs and the runner is
\* built over its result
MergeSecrets ==
    /\ runner.pc = "new"
    /\ runner' = [runner EXCEPT !.pc = "ready",
                    !.Secrets = FilterSecrets(runner.fetched, runner.declared,
                                              runner.env)]
    /\ UNCHANGED <<conf, phase, mu, entries, cron, jobs, execs, now, rpc, boot,
                   fires, accepted, lastReload, fired, unreg>>

\* Runner.RunJob called on the backend with request req: what the local
\* backend hands to docker, what the cloud backend puts in the environment
BackendRun(req) ==
    /\ runner.pc = "ready"
    /\ runner' = [runner EXCEPT !.pc = "called", !.req = req,
                    !.argv = IF conf.provider = "local"
                             THEN LocalArgs(runner.Secrets, JobsCmd, req)
                             ELSE <<>>,
                    !.envMap = IF conf.provider = "local" THEN NoEnv
                               ELSE CloudEnv(runner.Secrets, req)]
    /\ UNCHANGED <<conf, phase, mu, entries, cron, jobs, execs, now, rpc, boot,
                   fires, accepted, lastReload, fired, unreg>>

\* a helper of the cloud backend about to be called on the string in
HelperCall(in) == [NoRunner EXCEPT !.pc = "helper", !.in = in]

\* BatchRunner.UpdateSchedule (cloudrun.go 211-212) converts the spec
ToFiveField ==
    /\ runner.pc = "helper"
    /\ runner' = [runner EXCEPT !.pc = "returned", !.helper = "toFiveFieldCron",
                                !.out = toFiveFieldCron(runner.in)]
    /\ UNCHANGED <<conf, phase, mu, entries, cron, jobs, execs, now, rpc, boot,
                   fires, accepted, lastReload, fired, unreg>>

\* BatchRunner.RunJob converts the request's cpu
ParseCPU ==
    /\ runner.pc = "helper"
    /\ runner' = [runner EXCEPT !.pc = "returned", !.helper = "parseCPU",
                                !.out = parseCPU(runner.in)]
    /\ UNCHANGED <<conf, phase, mu, entries, cron, jobs, execs, now, rpc, boot,
                   fires, accepted, lastReload, fired, unreg>>

\* BatchRunner.RunJob converts the request's memory
ParseMemory ==
    /\ runner.pc = "helper"
    /\ runner' = [runner EXCEPT !.pc = "returned", !.helper = "parseMemory",
                                !.out = parseMemory(runner.in)]
    /\ UNCHANGED <<conf, phase, mu, entries, cron, jobs, execs, now, rpc, boot,
                   fires, accepted, lastReload, fired, unreg>>

-----------------------------------------------------------------------------
(* RPC workers. *)

NoResp == [ok |-> TRUE, id |-> <<>>, logs |-> "", err |-> "", items |-> <<>>]
OkResp(id, logs) == [ok |-> TRUE, id |-> id, logs |-> logs, err |-> "", items |-> <<>>]
ErrResp(e) == [ok |-> FALSE, id |-> <<>>, logs |-> "", err |-> e, items |-> <<>>]
ItemsResp(its) == [ok |-> TRUE, id |-> <<>>, logs |-> "", err |-> "", items |-> its]

\* the status code of a response on the wire: the handlers return plain Go
\* errors (lines 65, 89, 131, 145, 149), never a status error, and gRPC
\* reports a plain error with the code UNKNOWN
StatusCode(resp) == IF resp.ok THEN "OK" ELSE "UNKNOWN"

Idle ==
    [pc |-> "idle", req |-> NoReq, r |-> NoR, ctx |-> "live",
     hadOld |-> FALSE, pre |-> {}, ran |-> 0,
     result |-> "", runErr |-> "", start |-> 0, end |-> 0, resp |-> NoResp,
     lastDeleted |-> "", argv |-> <<>>]

\* a handler's fresh locals; lastDeleted (history) is the name the client's
\* previous call deleted with success, "" when it was no such call
Fresh(w) == [Idle EXCEPT !.lastDeleted = rpc[w].lastDeleted]

\* the history of removals: not kept, or the names taken out so far
NoUnreg == [track |-> FALSE, names |-> {}]

\* RunJob has registered name (Schedule returned nil)
UnregAfterAdd(u, name) ==
    IF u.track THEN [u EXCEPT !.names = u.names \ {name}] ELSE u

\* the handler of req returns resp to its caller
UnregAfterReturn(u, req, resp) ==
    IF /\ u.track
       /\ resp.ok
       /\ \/ req.op = "DeleteJob"
          \/ req.op = "UpdateSchedule" /\ req.schedule = SpecEmpty
    THEN [u EXCEPT !.names = u.names \cup {req.name}]
    ELSE u

NoBoot == [pc |-> "done", queue |-> <<>>]
NoFire == [pc |-> "none"]

\* the process starts: NewJobsServer has run, Reload is about to
Booted ==
    /\ phase' = "boot"
    /\ mu' = "free"
    /\ entries' = NoEntries
    /\ cron' = {}
    /\ rpc' = [w \in Workers |-> Idle]
    /\ boot' = [pc |-> "list", queue |-> <<>>]
    /\ fires' = [s \in FireSlots |-> NoFire]

\* the process dies (a panic in a handler: grpc-go does not recover)
Died ==
    /\ phase' = "down"
    /\ mu' = "free"
    /\ entries' = NoEntries
    /\ cron' = {}
    /\ rpc' = [w \in Workers |-> Idle]
    /\ boot' = NoBoot
    /\ fires' = [s \in FireSlots |-> NoFire]

\* fmt.Sprintf("job-%s-%d", req.Name, time.Now().Unix())
GenJobID(name, t) == <<"job", name, t>>

\* lines 37-51, then 52 or 77-83: a handler starts on a request
Call(w, req) ==
    /\ phase = "serving"
    /\ rpc[w].pc = "idle"
    /\ IF req.op = "RunJob" /\ req.resources.nil
       THEN /\ Died          \* req.GetResources().Cpu on a nil message
            /\ UNCHANGED <<unreg, runner, fired, accepted, lastReload, conf, jobs, execs, now>>
       ELSE /\ rpc' = [rpc EXCEPT ![w] =
                 IF req.op = "RunJob"
                 THEN LET r == BuildR(req)
                      IN  IF TakesSchedulePath(r)
                          THEN [Fresh(w) EXCEPT !.pc = "sched", !.req = req, !.r = r]
                          ELSE [Fresh(w) EXCEPT !.pc = "run", !.req = req,
                                  !.r = [r EXCEPT !.jobID =
                                           IF r.jobID = <<>>
                                           THEN GenJobID(req.name, now)
                                           ELSE r.jobID],
                                  !.start = now]
                 ELSE [Fresh(w) EXCEPT !.req = req,
                         !.pc = CASE req.op = "DeleteJob" -> "del_sched"
                                  [] req.op = "UpdateSchedule" -> "upd"
                                  [] OTHER -> "list"]]
            /\ accepted' = IF req.op = "DeleteJob"
                           THEN {p \in accepted : p[1] # req.name}
                           ELSE accepted
            /\ UNCHANGED <<unreg, runner, fired, lastReload, conf, phase, mu, entries, cron, jobs, execs, now,
                           boot, fires>>

\* the caller's context is cancelled (deadline, disconnect)
CancelCtx(w) ==
    /\ rpc[w].pc \notin {"idle", "ret"}
    /\ rpc[w].ctx = "live"
    /\ rpc' = [rpc EXCEPT ![w].ctx = "done"]
    /\ UNCHANGED <<unreg, runner, fired, accepted, lastReload, conf, phase, mu, entries, cron, jobs, execs, now, boot, fires>>

\* Scheduler.Schedule, lines 121-126: take the mutex, drop the old trigger
SchedRemove(w) ==
    /\ rpc[w].pc = "sched"
    /\ mu = "free"
    /\ mu' = w
    /\ cron' = CronAfterRemove(cron, entries, rpc[w].r.name)
    /\ entries' = EntriesAfterRemove(entries, rpc[w].r.name)
    /\ rpc' = [rpc EXCEPT ![w].pc = "sched_add",
                          ![w].hadOld = rpc[w].r.name \in DOMAIN entries,
                          ![w].pre = TriggerSet(cron)]
    /\ UNCHANGED <<unreg, runner, fired, accepted, lastReload, conf, phase, jobs, execs, now, boot, fires>>

\* Scheduler.Schedule, lines 127-133, and RunJob lines 64-66
SchedAdd(w) ==
    /\ rpc[w].pc = "sched_add"
    /\ mu = w
    /\ mu' = "free"
    /\ IF ParseOK(rpc[w].r.schedule)
       THEN /\ Cardinality(cron) < MaxCron
            /\ cron' = CronAfterAdd(cron, rpc[w].r.name, rpc[w].r.schedule,
                                    "run", rpc[w].r)
            /\ entries' = EntriesAfterAdd(entries, cron, rpc[w].r.name)
            /\ unreg' = UnregAfterAdd(unreg, rpc[w].r.name)
            /\ rpc' = [rpc EXCEPT ![w].pc = "upsert"]
       ELSE /\ rpc' = [rpc EXCEPT ![w].pc = "ret",
                                  ![w].resp = ErrResp("parse error")]
            /\ UNCHANGED <<cron, entries, unreg>>
    /\ UNCHANGED <<runner, fired, accepted, lastReload, conf, phase, jobs, execs, now, boot, fires>>

\* the JobRecord RunJob hands to Upsert (lines 68-73)
UpsertRecord(r) == JobRecord(r.name, r.command, "", SpecEmpty, r.cpu, r.memory)

\* RunJob lines 67-75
Upsert(w) ==
    /\ rpc[w].pc = "upsert"
    /\ jobs' = IF HasStore /\ rpc[w].ctx = "live"
               THEN StoreUpsert(jobs, UpsertRecord(rpc[w].r))
               ELSE jobs
    /\ rpc' = [rpc EXCEPT ![w].pc = "ret",
                          ![w].resp = OkResp(<<rpc[w].r.name>>, "scheduled")]
    /\ accepted' = {p \in accepted : p[1] # rpc[w].r.name}
                     \cup {<<rpc[w].r.name, rpc[w].r.schedule>>}
    /\ UNCHANGED <<unreg, runner, fired, lastReload, conf, phase, mu, entries, cron, execs, now, boot, fires>>

\* what the backend is invoked with for request r: the docker arguments on
\* the local provider (the cloud backend takes no argument list)
BackendArgs(r) ==
    IF conf.provider = "local" THEN LocalArgs(runner.Secrets, JobsCmd, r)
    ELSE <<>>

\* RunJob line 85: runner.RunJob returns. A done context makes the backend
\* call fail; otherwise the job succeeds or fails on its own.
RunnerRun(w) ==
    /\ rpc[w].pc = "run"
    /\ \E outcome \in {"ok", "fail"} :
         LET err == IF rpc[w].ctx = "done" THEN "context canceled"
                    ELSE IF outcome = "fail" THEN "run failed" ELSE ""
         IN  rpc' = [rpc EXCEPT ![w].pc = "record",
                                ![w].ran = rpc[w].ran + 1,
                                ![w].argv = BackendArgs(rpc[w].r),
                                ![w].result = IF err = "" THEN "output" ELSE "",
                                ![w].runErr = err,
                                ![w].end = now]
    /\ UNCHANGED <<unreg, runner, fired, accepted, lastReload, conf, phase, mu, entries, cron, jobs, execs, now, boot, fires>>

\* a faulty variant: only failed runs are recorded
ExecsAfterRecordErrorsOnly(rows, ctx, r, id, result, runErr, start, end) ==
    IF HasStore /\ ctx = "live" /\ runErr # ""
    THEN AddExecution(rows, ExecutionRecord(r, id, result, runErr, start, end))
    ELSE rows

\* JobsServer.recordExecution (lines 94-121): the rows after the call
ExecsAfterRecord(rows, ctx, r, id, result, runErr, start, end) ==
    IF HasStore /\ ctx = "live"
    THEN AddExecution(rows, ExecutionRecord(r, id, result, runErr, start, end))
    ELSE rows

\* a faulty variant: a failed audit write becomes the error of the RPC
RecordReturnsStoreError(w) ==
    /\ rpc[w].pc = "record"
    /\ execs' = ExecsAfterRecord(execs, rpc[w].ctx, rpc[w].r, rpc[w].r.jobID,
                                 rpc[w].result, rpc[w].runErr,
                                 rpc[w].start, rpc[w].end)
    /\ Len(execs') <= MaxExec
    /\ rpc' = [rpc EXCEPT ![w].pc = "ret",
                          ![w].resp = IF HasStore /\ execs' = execs
                                      THEN ErrResp("add execution failed")
                                      ELSE IF rpc[w].runErr # ""
                                      THEN ErrResp(rpc[w].runErr)
                                      ELSE OkResp(rpc[w].r.jobID, rpc[w].result)]
    /\ UNCHANGED <<unreg, runner, fired, accepted, lastReload, conf, phase, mu, entries, cron, jobs, now, boot, fires>>

\* RunJob lines 87-91: the audit write, then the response
Record(w) ==
    /\ rpc[w].pc = "record"
    /\ execs' = ExecsAfterRecord(execs, rpc[w].ctx, rpc[w].r, rpc[w].r.jobID,
                                 rpc[w].result, rpc[w].runErr,
                                 rpc[w].start, rpc[w].end)
    /\ Len(execs') <= MaxExec
    /\ rpc' = [rpc EXCEPT ![w].pc = "ret",
                          ![w].resp = IF rpc[w].runErr # ""
                                      THEN ErrResp(rpc[w].runErr)
                                      ELSE OkResp(rpc[w].r.jobID, rpc[w].result)]
    /\ UNCHANGED <<unreg, runner, fired, accepted, lastReload, conf, phase, mu, entries, cron, jobs, now, boot, fires>>

\* a faulty variant: the runner is called with the trigger still in place
DelSchedKeepsTrigger(w) ==
    /\ rpc[w].pc = "del_sched"
    /\ HasSched => mu = "free"
    /\ rpc' = [rpc EXCEPT ![w].pc = "del_store",
                          ![w].hadOld = HasSched /\ rpc[w].req.name \in DOMAIN entries]
    /\ UNCHANGED <<unreg, runner, fired, accepted, lastReload, conf, phase, mu, entries, cron, jobs, execs, now, boot, fires>>

\* DeleteJob lines 124-126, Scheduler.Delete
DelSched(w) ==
    /\ rpc[w].pc = "del_sched"
    /\ IF HasSched
       THEN /\ mu = "free"
            /\ cron' = CronAfterRemove(cron, entries, rpc[w].req.name)
            /\ entries' = EntriesAfterRemove(entries, rpc[w].req.name)
       ELSE UNCHANGED <<cron, entries>>
    /\ rpc' = [rpc EXCEPT ![w].pc = "del_store",
                          ![w].hadOld = HasSched /\ rpc[w].req.name \in DOMAIN entries]
    /\ UNCHANGED <<unreg, runner, fired, accepted, lastReload, conf, phase, mu, jobs, execs, now, boot, fires>>

\* a faulty variant: the store's "not found" reaches the caller
DelStoreReturnsError(w) ==
    /\ rpc[w].pc = "del_store"
    /\ jobs' = IF HasStore /\ rpc[w].ctx = "live"
               THEN StoreDelete(jobs, rpc[w].req.name)
               ELSE jobs
    /\ rpc' = IF HasStore /\ \A row \in jobs : row.name # rpc[w].req.name
              THEN [rpc EXCEPT ![w].pc = "ret", ![w].resp = ErrResp("not found")]
              ELSE [rpc EXCEPT ![w].pc = "del_runner"]
    /\ UNCHANGED <<unreg, runner, fired, accepted, lastReload, conf, phase, mu, entries, cron, execs, now, boot, fires>>

\* DeleteJob lines 127-129: the store's error is dropped
DelStore(w) ==
    /\ rpc[w].pc = "del_store"
    /\ jobs' = IF HasStore /\ rpc[w].ctx = "live"
               THEN StoreDelete(jobs, rpc[w].req.name)
               ELSE jobs
    /\ rpc' = [rpc EXCEPT ![w].pc = "del_runner"]
    /\ UNCHANGED <<unreg, runner, fired, accepted, lastReload, conf, phase, mu, entries, cron, execs, now, boot, fires>>

\* DeleteJob lines 130-133. LocalRunner.DeleteJob returns nil; the cloud
\* runner's call can fail.
DelRunner(w) ==
    /\ rpc[w].pc = "del_runner"
    /\ \E outcome \in {"ok", "fail"} :
         LET err == IF conf.provider = "local" THEN ""
                    ELSE IF rpc[w].ctx = "done" THEN "context canceled"
                    ELSE IF outcome = "fail" THEN "delete failed" ELSE ""
         IN  rpc' = [rpc EXCEPT ![w].pc = "ret",
                                ![w].ran = rpc[w].ran + 1,
                                ![w].resp = IF err # "" THEN ErrResp(err)
                                            ELSE OkResp(<<>>, "")]
    /\ UNCHANGED <<unreg, runner, fired, accepted, lastReload, conf, phase, mu, entries, cron, jobs, execs, now, boot, fires>>

\* a faulty variant: the empty UpdateSchedule also deletes the row
UpdateScheduleDropsRow(w) ==
    /\ rpc[w].pc = "upd"
    /\ IF HasSched
       THEN IF rpc[w].req.schedule = SpecEmpty
            THEN /\ mu = "free"
                 /\ cron' = CronAfterRemove(cron, entries, rpc[w].req.name)
                 /\ entries' = EntriesAfterRemove(entries, rpc[w].req.name)
                 /\ jobs' = StoreDelete(jobs, rpc[w].req.name)
                 /\ rpc' = [rpc EXCEPT ![w].pc = "ret",
                                       ![w].hadOld = rpc[w].req.name \in DOMAIN entries,
                                       ![w].resp = OkResp(<<>>, "")]
            ELSE /\ rpc' = [rpc EXCEPT ![w].pc = "ret",
                       ![w].resp = ErrResp("reschedule requires rerun with RunJob in local provider")]
                 /\ UNCHANGED <<cron, entries, jobs>>
       ELSE /\ \E outcome \in {"ok", "fail"} :
                 LET err == IF rpc[w].ctx = "done" THEN "context canceled"
                            ELSE IF outcome = "fail" THEN "update failed" ELSE ""
                 IN  rpc' = [rpc EXCEPT ![w].pc = "ret",
                                        ![w].ran = rpc[w].ran + 1,
                                        ![w].resp = IF err # "" THEN ErrResp(err)
                                                    ELSE OkResp(<<>>, "")]
            /\ UNCHANGED <<cron, entries, jobs>>
    /\ UNCHANGED <<unreg, runner, fired, accepted, lastReload, conf, phase, mu, execs, now, boot, fires>>

\* a faulty variant: a non-empty UpdateSchedule drops the name's trigger
\* before it answers the error
UpdateScheduleClearsTrigger(w) ==
    /\ rpc[w].pc = "upd"
    /\ IF HasSched
       THEN /\ mu = "free"
            /\ cron' = CronAfterRemove(cron, entries, rpc[w].req.name)
            /\ entries' = EntriesAfterRemove(entries, rpc[w].req.name)
            /\ rpc' = [rpc EXCEPT ![w].pc = "ret",
                  ![w].hadOld = rpc[w].req.name \in DOMAIN entries,
                  ![w].resp = IF rpc[w].req.schedule = SpecEmpty
                              THEN OkResp(<<>>, "")
                              ELSE ErrResp("reschedule requires rerun with RunJob in local provider")]
       ELSE /\ \E outcome \in {"ok", "fail"} :
                 LET err == IF rpc[w].ctx = "done" THEN "context canceled"
                            ELSE IF outcome = "fail" THEN "update failed" ELSE ""
                 IN  rpc' = [rpc EXCEPT ![w].pc = "ret",
                                        ![w].ran = rpc[w].ran + 1,
                                        ![w].resp = IF err # "" THEN ErrResp(err)
                                                    ELSE OkResp(<<>>, "")]
            /\ UNCHANGED <<cron, entries>>
    /\ UNCHANGED <<unreg, runner, fired, accepted, lastReload, conf, phase, mu, jobs, execs, now, boot, fires>>

\* a faulty variant: the empty UpdateSchedule leaves the trigger in place
UpdateScheduleKeepsTrigger(w) ==
    /\ rpc[w].pc = "upd"
    /\ HasSched => mu = "free"
    /\ rpc' = [rpc EXCEPT ![w].pc = "ret",
                          ![w].hadOld = rpc[w].req.name \in DOMAIN entries,
                          ![w].resp = IF HasSched /\ rpc[w].req.schedule # SpecEmpty
                                      THEN ErrResp("reschedule requires rerun with RunJob in local provider")
                                      ELSE OkResp(<<>>, "")]
    /\ UNCHANGED <<unreg, runner, fired, accepted, lastReload, conf, phase, mu, entries, cron, jobs, execs, now, boot, fires>>

\* UpdateSchedule lines 136-152
UpdateSchedule(w) ==
    /\ rpc[w].pc = "upd"
    /\ IF HasSched
       THEN IF rpc[w].req.schedule = SpecEmpty
            THEN /\ mu = "free"
                 /\ cron' = CronAfterRemove(cron, entries, rpc[w].req.name)
                 /\ entries' = EntriesAfterRemove(entries, rpc[w].req.name)
                 /\ rpc' = [rpc EXCEPT ![w].pc = "ret",
                                       ![w].hadOld = rpc[w].req.name \in DOMAIN entries,
                                       ![w].resp = OkResp(<<>>, "")]
            ELSE /\ rpc' = [rpc EXCEPT ![w].pc = "ret",
                       ![w].resp = ErrResp("reschedule requires rerun with RunJob in local provider")]
                 /\ UNCHANGED <<cron, entries>>
       ELSE /\ \E outcome \in {"ok", "fail"} :
                 LET err == IF rpc[w].ctx = "done" THEN "context canceled"
                            ELSE IF outcome = "fail" THEN "update failed" ELSE ""
                 IN  rpc' = [rpc EXCEPT ![w].pc = "ret",
                                        ![w].ran = rpc[w].ran + 1,
                                        ![w].resp = IF err # "" THEN ErrResp(err)
                                                    ELSE OkResp(<<>>, "")]
            /\ UNCHANGED <<cron, entries>>
    /\ UNCHANGED <<unreg, runner, fired, accepted, lastReload, conf, phase, mu, jobs, execs, now, boot, fires>>

\* the wire item of a row (ListSchedules lines 163-171)
ScheduleItem(row) ==
    [name |-> row.name, command |-> row.command, args_base64 |-> row.args_base64,
     cron |-> row.cron_spec, cpu |-> row.cpu, memory |-> row.memory]

\* a faulty variant: without a store ListSchedules answers an error
ListSchedulesNeedsStore(w) ==
    /\ rpc[w].pc = "list"
    /\ rpc' = [rpc EXCEPT ![w].pc = "ret",
                 ![w].resp =
                    IF ~HasStore THEN ErrResp("no store")
                    ELSE IF rpc[w].ctx = "done" THEN ErrResp("context canceled")
                    ELSE LET recs == StoreList(jobs)
                         IN  ItemsResp([i \in 1..Len(recs) |-> ScheduleItem(recs[i])])]
    /\ UNCHANGED <<unreg, runner, fired, accepted, lastReload, conf, phase, mu, entries, cron, jobs, execs, now, boot, fires>>

\* ListSchedules lines 154-173
ListSchedules(w) ==
    /\ rpc[w].pc = "list"
    /\ rpc' = [rpc EXCEPT ![w].pc = "ret",
                 ![w].resp =
                    IF ~HasStore THEN ItemsResp(<<>>)
                    ELSE IF rpc[w].ctx = "done" THEN ErrResp("context canceled")
                    ELSE LET recs == StoreList(jobs)
                         IN  ItemsResp([i \in 1..Len(recs) |-> ScheduleItem(recs[i])])]
    /\ UNCHANGED <<unreg, runner, fired, accepted, lastReload, conf, phase, mu, entries, cron, jobs, execs, now, boot, fires>>

\* the response leaves the handler
Return(w) ==
    /\ rpc[w].pc = "ret"
    /\ rpc' = [rpc EXCEPT ![w] =
                 [Idle EXCEPT !.lastDeleted =
                    IF rpc[w].req.op = "DeleteJob" /\ rpc[w].resp.ok
                    THEN rpc[w].req.name ELSE ""]]
    /\ unreg' = UnregAfterReturn(unreg, rpc[w].req, rpc[w].resp)
    /\ UNCHANGED <<runner, fired, accepted, lastReload, conf, phase, mu, entries, cron, jobs, execs, now, boot, fires>>

-----------------------------------------------------------------------------
(* Boot: main runs NewJobsServer, then Reload, then starts the listener.   *)

\* the runner.JobRequest Reload builds from a row (lines 22-29)
ReloadR(row) ==
    [name |-> row.name, command |-> row.command, args_base64 |-> row.args_base64,
     cpu |-> row.cpu, memory |-> row.memory, type |-> "repeatable",
     schedule |-> row.cron_spec, jobID |-> <<>>, overrides |-> NoOverrides]

\* Reload lines 13-20
ReloadList ==
    /\ phase = "boot"
    /\ boot.pc = "list"
    /\ IF HasSched /\ HasStore
       THEN /\ boot' = [pc |-> "loop", queue |-> StoreList(jobs)]
            /\ phase' = phase
       ELSE /\ boot' = NoBoot
            /\ phase' = "serving"
    /\ UNCHANGED <<unreg, runner, fired, accepted, lastReload, conf, mu, entries, cron, jobs, execs, now, rpc, fires>>

\* a faulty variant: Reload returns at the first row that fails to parse
ReloadOneStopsAtError ==
    /\ phase = "boot"
    /\ boot.pc = "loop"
    /\ boot.queue # <<>>
    /\ LET row == Head(boot.queue)
           cr == CronAfterRemove(cron, entries, row.name)
           en == EntriesAfterRemove(entries, row.name)
       IN  IF ParseOK(row.cron_spec)
           THEN /\ Cardinality(cr) < MaxCron
                /\ cron' = CronAfterAdd(cr, row.name, row.cron_spec, "reload",
                                        ReloadR(row))
                /\ entries' = EntriesAfterAdd(en, cr, row.name)
                /\ boot' = [boot EXCEPT !.queue = Tail(boot.queue)]
           ELSE /\ cron' = cr
                /\ entries' = en
                /\ boot' = [boot EXCEPT !.queue = <<>>]
    /\ UNCHANGED <<unreg, runner, fired, accepted, lastReload, conf, phase, mu, jobs, execs, now, rpc, fires>>

\* Reload lines 21-39: one row; Schedule runs whole (no handler runs yet)
ReloadOne ==
    /\ phase = "boot"
    /\ boot.pc = "loop"
    /\ boot.queue # <<>>
    /\ LET row == Head(boot.queue)
           cr == CronAfterRemove(cron, entries, row.name)
           en == EntriesAfterRemove(entries, row.name)
       IN  IF ParseOK(row.cron_spec)
           THEN /\ Cardinality(cr) < MaxCron
                /\ cron' = CronAfterAdd(cr, row.name, row.cron_spec, "reload",
                                        ReloadR(row))
                /\ entries' = EntriesAfterAdd(en, cr, row.name)
           ELSE /\ cron' = cr
                /\ entries' = en
    /\ boot' = [boot EXCEPT !.queue = Tail(boot.queue)]
    /\ UNCHANGED <<unreg, runner, fired, accepted, lastReload, conf, phase, mu, jobs, execs, now, rpc, fires>>

\* Reload returns; main registers the service and serves
Serve ==
    /\ phase = "boot"
    /\ boot.pc = "loop"
    /\ boot.queue = <<>>
    /\ boot' = NoBoot
    /\ phase' = "serving"
    /\ lastReload' = IF lastReload.track
                     THEN [track |-> TRUE, done |-> TRUE, jobs |-> jobs,
                           set |-> TriggerSet(cron)]
                     ELSE lastReload
    /\ UNCHANGED <<unreg, runner, fired, accepted, conf, mu, entries, cron, jobs, execs, now, rpc, fires>>

\* the process is stopped and started again over the same store
Restart ==
    /\ Booted
    /\ UNCHANGED <<unreg, runner, fired, accepted, lastReload, conf, jobs, execs, now>>

-----------------------------------------------------------------------------
(* The clock and the cron engine's firings.                                *)

Tick ==
    /\ now < MaxTime
    /\ now' = now + 1
    /\ UNCHANGED <<unreg, runner, fired, accepted, lastReload, conf, phase, mu, entries, cron, jobs, execs, rpc, boot, fires>>

FreeSlots == {s \in FireSlots : fires[s].pc = "none"}

\* a faulty variant: the callback runs under the context of a RunJob call
\* for its name, done once no such call is in progress with a live context
CallbackCtxOfCaller(e) ==
    IF \E w \in Workers :
          /\ rpc[w].pc \notin {"idle", "ret"}
          /\ rpc[w].req.op = "RunJob"
          /\ rpc[w].req.name = e.name
          /\ rpc[w].ctx = "live"
    THEN "live" ELSE "done"

\* Scheduler.Schedule line 127: the context the engine's wrapper hands the
\* callback of entry e, context.Background()
CallbackCtx(e) == "live"

\* a faulty variant: a due entry is skipped while a callback of an earlier
\* firing of its name is running
CronFireSkipsIfRunning(e) ==
    /\ phase \in {"boot", "serving"}
    /\ e \in cron
    /\ e.next <= now
    /\ FreeSlots # {}
    /\ \A x \in FireSlots :
          IF fires[x].pc = "none" THEN TRUE ELSE fires[x].name # e.name
    /\ LET s == CHOOSE x \in FreeSlots : \A y \in FreeSlots : x <= y
       IN  /\ cron' = (cron \ {e}) \cup {[e EXCEPT !.next = NextAfter(e.spec, now)]}
           /\ fires' = [fires EXCEPT ![s] =
                          [pc |-> "run", name |-> e.name, kind |-> e.kind,
                           r |-> e.r, tick |-> e.next, start |-> now, end |-> 0,
                           result |-> "", runErr |-> "", runs |-> 0,
                           ctx |-> CallbackCtx(e)]]
           /\ fired' = fired \cup {<<e.name, e.next>>}
    /\ UNCHANGED <<unreg, runner, accepted, lastReload, conf, phase, mu, entries, jobs, execs, now, rpc, boot>>

\* the engine finds entry e due and starts its callback on a goroutine.
\* RunJob's callback (lines 55-58) reads the clock and, the first time,
\* sets the job id of the request it captured.
CronFire(e) ==
    /\ phase \in {"boot", "serving"}
    /\ e \in cron
    /\ e.next <= now
    /\ FreeSlots # {}
    /\ LET s == CHOOSE x \in FreeSlots : \A y \in FreeSlots : x <= y
           r == IF e.kind = "run" /\ e.r.jobID = <<>>
                THEN [e.r EXCEPT !.jobID = GenJobID(e.r.name, now)]
                ELSE e.r
       IN  /\ cron' = (cron \ {e}) \cup
                        {[e EXCEPT !.r = r, !.next = NextAfter(e.spec, now)]}
           /\ fires' = [fires EXCEPT ![s] =
                          [pc |-> "run", name |-> e.name, kind |-> e.kind,
                           r |-> r, tick |-> e.next, start |-> now, end |-> 0,
                           result |-> "", runErr |-> "", runs |-> 0,
                           ctx |-> CallbackCtx(e)]]
           /\ fired' = fired \cup {<<e.name, e.next>>}
    /\ UNCHANGED <<unreg, runner, accepted, lastReload, conf, phase, mu, entries, jobs, execs, now, rpc, boot>>

\* the callback's runner.RunJob returns, under the callback's context;
\* Reload's callback (line 32) drops the result and ends
FireRun(s) ==
    /\ fires[s].pc = "run"
    /\ \E outcome \in {"ok", "fail"} :
         LET err == IF fires[s].ctx = "done" THEN "context canceled"
                    ELSE IF outcome = "fail" THEN "run failed" ELSE ""
         IN  fires' = [fires EXCEPT ![s] =
                     IF fires[s].kind = "reload" THEN NoFire
                     ELSE [fires[s] EXCEPT !.pc = "record",
                             !.runs = fires[s].runs + 1,
                             !.result = IF err = "" THEN "output" ELSE "",
                             !.runErr = err,
                             !.end = now]]
    /\ UNCHANGED <<unreg, runner, fired, accepted, lastReload, conf, phase, mu, entries, cron, jobs, execs, now, rpc, boot>>

\* RunJob's callback, line 62
FireRecord(s) ==
    /\ fires[s].pc = "record"
    /\ execs' = ExecsAfterRecord(execs, fires[s].ctx, fires[s].r, fires[s].r.jobID,
                                 fires[s].result, fires[s].runErr,
                                 fires[s].start, fires[s].end)
    /\ Len(execs') <= MaxExec
    /\ fires' = [fires EXCEPT ![s] = NoFire]
    /\ UNCHANGED <<unreg, runner, fired, accepted, lastReload, conf, phase, mu, entries, cron, jobs, now, rpc, boot>>

-----------------------------------------------------------------------------
(* Specifications.                                                         *)

NoReload == [track |-> FALSE, done |-> FALSE, jobs |-> {}, set |-> {}]

\* the process has started: the configuration is one of confs, the store
\* already holds one of stores, the runner is one of runners
InitBase(confs, stores, track, runners, unregs) ==
    /\ runner \in runners
    /\ unreg \in unregs
    /\ conf \in confs
    /\ jobs \in stores
    /\ phase = "boot"
    /\ mu = "free"
    /\ entries = NoEntries
    /\ cron = {}
    /\ execs = <<>>
    /\ now = 0
    /\ rpc = [w \in Workers |-> Idle]
    /\ boot = [pc |-> "list", queue |-> <<>>]
    /\ fires = [s \in FireSlots |-> NoFire]
    /\ accepted = {}
    /\ lastReload = [NoReload EXCEPT !.track = track]
    /\ fired = {}

\* the same, the history of removals not kept
InitFull(confs, stores, track, runners) ==
    InitBase(confs, stores, track, runners, {NoUnreg})

\* the same, with no secret declared and none fetched
InitWith(confs, stores, track) == InitFull(confs, stores, track, {NoRunner})

\* the steps of a handler past its first
Handle(w) ==
    \/ CancelCtx(w)
    \/ SchedRemove(w)
    \/ SchedAdd(w)
    \/ Upsert(w)
    \/ DelSched(w)
    \/ DelStore(w)
    \/ DelRunner(w)
    \/ UpdateSchedule(w)
    \/ ListSchedules(w)
    \/ Return(w)

BootSteps ==
    \/ ReloadList
    \/ ReloadOne
    \/ Serve
    \/ Restart

\* Requests that register, replace and remove schedules
RegistryReqs ==
    {RunReq(n, "report", "QQ==", rs, Repeatable, s, <<>>) :
        n \in Names, rs \in {Res("", ""), Res("1", "2Gi")},
        s \in {SpecEvery, SpecEven, SpecBad}}
    \cup {DelReq(n) : n \in Names}
    \cup {UpdReq(n, s) : n \in Names, s \in {SpecEmpty, SpecEvery}}
    \cup {ListReq}

\* Spec: the local provider over a store that starts empty; one RPC at a
\* time, every schedule RPC, restarts.
Init == InitWith({LocalStore, LocalNoStore}, {{}}, FALSE)

Next ==
    \/ BootSteps
    \/ \E req \in RegistryReqs : Call("w1", req)
    \/ Handle("w1")

Spec == Init /\ [][Next]_vars

\* SpecReload: Spec, remembering what each completed Reload saw and left
InitReload == InitWith({LocalStore}, {{}}, TRUE)

SpecReload == InitReload /\ [][Next]_vars

\* SpecConc: two RPCs at a time on one name
ConcReqs ==
    {RunReq("a", "report", "QQ==", Res("1", "2Gi"), Repeatable, s, <<>>) :
        s \in {SpecEvery, SpecEven, SpecBad}}
    \cup {DelReq("a"), UpdReq("a", SpecEmpty), UpdReq("a", SpecEvery), ListReq}

InitConc == InitWith({LocalStore}, {{}}, FALSE)

NextConc ==
    \/ BootSteps
    \/ \E w \in Workers : \E req \in ConcReqs : Call(w, req)
    \/ \E w \in Workers : Handle(w)

SpecConc == InitConc /\ [][NextConc]_vars

\* SpecSync: synchronous runs under every configuration, with the clock
SyncReqs ==
    {RunReq("a", "report", "QQ==", rs, t, SpecEmpty, <<>>) :
        rs \in {Res("", ""), Res("1", "2Gi")}, t \in {OneTime, Repeatable}}

InitSync == InitWith({LocalStore, LocalNoStore, Cloud}, {{}}, FALSE)

NextSync ==
    \/ ReloadList
    \/ Serve
    \/ Tick
    \/ \E req \in SyncReqs : Call("w1", req)
    \/ CancelCtx("w1")
    \/ RunnerRun("w1")
    \/ Record("w1")
    \/ Return("w1")

SpecSync == InitSync /\ [][NextSync]_vars

\* SpecFire: the cron engine's firings. The database outlives the process:
\* at start it is empty or holds a row whose cron_spec column is filled.
StoredRow == JobRecord("a", "report", "QQ==", SpecEven, "1", "2Gi")

FireReqs ==
    {RunReq("b", "report", "QQ==", Res("1", "2Gi"), Repeatable, s, <<>>) :
        s \in {SpecEvery, SpecEven}}

InitFire == InitWith({LocalStore}, {{}, {StoredRow}}, FALSE)

NextFire ==
    \/ ReloadList
    \/ ReloadOne
    \/ Serve
    \/ Tick
    \/ \E e \in cron : CronFire(e)
    \/ \E s \in FireSlots : FireRun(s)
    \/ \E s \in FireSlots : FireRecord(s)
    \/ \E req \in FireReqs : Call("w1", req)
    \/ SchedRemove("w1")
    \/ SchedAdd("w1")
    \/ Upsert("w1")
    \/ Return("w1")

SpecFire == InitFire /\ [][NextFire]_vars

\* SpecNoStore: servers without a store, local (the store did not open) and
\* cloud, under every RPC
InitNoStore == InitWith({LocalNoStore, Cloud}, {{}}, FALSE)

NextNoStore ==
    \/ ReloadList
    \/ Restart
    \/ \E req \in RegistryReqs \cup SyncReqs : Call("w1", req)
    \/ Handle("w1")
    \/ RunnerRun("w1")
    \/ Record("w1")

SpecNoStore == InitNoStore /\ [][NextNoStore]_vars

\* SpecAudit: the operations of the server over a store that holds a job:
\* Reload, scheduled runs, firings and their audit writes, deletions,
\* schedule updates
AuditReqs ==
    {RunReq("b", "report", "QQ==", Res("1", "2Gi"), Repeatable, SpecEvery, <<>>),
     DelReq("b"), UpdReq("b", SpecEmpty)}

NextAudit ==
    \/ ReloadList
    \/ ReloadOne
    \/ Serve
    \/ Tick
    \/ \E e \in cron : CronFire(e)
    \/ \E s \in FireSlots : FireRun(s)
    \/ \E s \in FireSlots : FireRecord(s)
    \/ \E req \in AuditReqs : Call("w1", req)
    \/ SchedRemove("w1")
    \/ SchedAdd("w1")
    \/ Upsert("w1")
    \/ DelSched("w1")
    \/ DelStore("w1")
    \/ DelRunner("w1")
    \/ UpdateSchedule("w1")
    \/ Return("w1")

InitAudit == InitWith({LocalStore}, {{StoredRow}}, FALSE)

SpecAudit == InitAudit /\ [][NextAudit]_vars

\* SpecTick: firings, replacements of a trigger and restarts in one second
NextTick ==
    \/ NextFire
    \/ Restart

SpecTick == InitFire /\ [][NextTick]_vars

\* SpecCtx: firings, with callers that cancel the registering call
CtxReqs == {RunReq("b", "report", "QQ==", Res("1", "2Gi"), Repeatable, SpecEvery, <<>>)}

InitCtx == InitWith({LocalStore}, {{}}, FALSE)

NextCtx ==
    \/ ReloadList
    \/ Serve
    \/ Tick
    \/ \E e \in cron : CronFire(e)
    \/ \E s \in FireSlots : FireRun(s)
    \/ \E s \in FireSlots : FireRecord(s)
    \/ \E req \in CtxReqs : Call("w1", req)
    \/ CancelCtx("w1")
    \/ SchedRemove("w1")
    \/ SchedAdd("w1")
    \/ Upsert("w1")
    \/ Return("w1")

SpecCtx == InitCtx /\ [][NextCtx]_vars

\* SpecId: synchronous runs with and without a job_id of the client's, with
\* the clock
IdReqs ==
    {RunReq("a", "report", "QQ==", Res("1", "2Gi"), OneTime, SpecEmpty, j) :
        j \in {<<>>, <<"proc-2024-01-15">>}}

NextId ==
    \/ ReloadList
    \/ Serve
    \/ Tick
    \/ \E req \in IdReqs : Call("w1", req)
    \/ RunnerRun("w1")
    \/ Record("w1")
    \/ Return("w1")

InitId == InitWith({LocalStore, Cloud}, {{}}, FALSE)

SpecId == InitId /\ [][NextId]_vars

\* SpecRun: synchronous runs on the local provider, over every shape of the
\* request's resources, type and overrides, and the two requests the
\* handlers refuse and a five-field schedule; the clock stands still.
JobTypeUnknown == "JOB_TYPE_UNKNOWN_7"

OvResources ==
    Overrides(<<"--verbose">>, <<EnvVar("LOG_LEVEL", "info")>>, Res("2", "4Gi"))

RunPathReqs ==
    {RunReqOv("a", c, "QQ==", rs, t, SpecEmpty, <<>>, ov) :
        c \in {"report", "etl"},
        rs \in {NilRes, Res("", ""), Res("1", "2Gi"), Res("1", "")},
        t \in {OneTime, JobTypeUnknown},
        ov \in {NoOverrides, OvResources}}
    \cup {RunReq("a", "report", "QQ==", Res("1", "2Gi"), Repeatable, s, <<>>) :
            s \in {SpecBad, SpecFive}}
    \cup {UpdReq("a", SpecEvery)}

InitRun == InitWith({LocalStore}, {{}}, FALSE)

NextRun ==
    \/ ReloadList
    \/ Serve
    \/ Restart
    \/ \E req \in RunPathReqs : Call("w1", req)
    \/ SchedRemove("w1")
    \/ SchedAdd("w1")
    \/ UpdateSchedule("w1")
    \/ RunnerRun("w1")
    \/ Record("w1")
    \/ Return("w1")

SpecRun == InitRun /\ [][NextRun]_vars

\* SpecMerge: the Secret Merger over every provider list, config list and
\* environment within the bounds
SecretKeys == {"LOG_LEVEL", "API_KEY"}

SeqsUpTo(S, n) == UNION {[1..k -> S] : k \in 0..n}

FetchedLists ==
    SeqsUpTo({Secret("LOG_LEVEL", "debug"), Secret("LOG_LEVEL", "trace"),
              Secret("API_KEY", "k1")}, MaxFetched)

DeclaredLists ==
    SeqsUpTo({SecretConfig(k, v) : k \in SecretKeys, v \in {"literal", "$ref"}},
             MaxDeclared)

Environments == [SecretKeys -> {"", "fromenv"}]

NewRunners ==
    {NewRunner(f, d, e) : f \in FetchedLists, d \in DeclaredLists,
                          e \in Environments}

InitMerge == InitFull({LocalStore}, {{}}, FALSE, NewRunners)

NextMerge == MergeSecrets

SpecMerge == InitMerge /\ [][NextMerge]_vars

\* SpecBackend: the two backends called with requests that carry overrides,
\* over the secrets the merger left
JobRequest(a, ov) ==
    [NoR EXCEPT !.name = "a", !.command = "report", !.args_base64 = a,
                !.cpu = "1", !.memory = "2Gi", !.overrides = ov]

BackendReqs ==
    {JobRequest(a, ov) :
        a \in {"", "QQ=="},
        ov \in {NoOverrides,
                Overrides(<<>>, <<EnvVar("LOG_LEVEL", "info")>>, NilRes),
                Overrides(<<"--verbose", "-x">>,
                          <<EnvVar("API_KEY", "k2"), EnvVar("LOG_LEVEL", "info"),
                            EnvVar("LOG_LEVEL", "warn")>>,
                          Res("2", "4Gi"))}}

BackendRunners ==
    {NewRunner(f, d, [k \in SecretKeys |-> ""]) :
        f \in FetchedLists, d \in DeclaredLists}

InitBackend == InitFull({LocalStore, Cloud}, {{}}, FALSE, BackendRunners)

NextBackend ==
    \/ MergeSecrets
    \/ \E req \in BackendReqs : BackendRun(req)

SpecBackend == InitBackend /\ [][NextBackend]_vars

\* SpecCron: toFiveFieldCron over raw cron specs of up to MaxFields fields,
\* with single and mixed whitespace between them and around them
CronTokens == {"*", "*/5"}

CronGaps == {" ", " \t"}

RECURSIVE Interleave(_, _)
Interleave(fields, gaps) ==
    IF fields = <<>> THEN ""
    ELSE IF Len(fields) = 1 THEN fields[1]
    ELSE fields[1] \o gaps[1] \o Interleave(Tail(fields), Tail(gaps))

RawSpecs ==
    {lead \o Interleave(f, g) \o trail :
        lead \in {"", " "}, trail \in {"", " "},
        f \in UNION {[1..k -> CronTokens] : k \in 0..MaxFields},
        g \in [1..(MaxFields - 1) -> CronGaps]}

InitCron ==
    InitFull({Cloud}, {{}}, FALSE, {HelperCall(in) : in \in RawSpecs})

NextCron == ToFiveField

SpecCron == InitCron /\ [][NextCron]_vars

\* SpecParse: parseCPU and parseMemory over every string of up to MaxResLen
\* characters of ResChars
ResChars == {"1", "5", ".", "m", "M", "i", "G"}

RECURSIVE StringsUpTo(_, _)
StringsUpTo(chars, n) ==
    IF n = 0 THEN {""}
    ELSE LET shorter == StringsUpTo(chars, n - 1)
         IN  shorter \cup {s \o c : s \in shorter, c \in chars}

InitParse ==
    InitFull({Cloud}, {{}}, FALSE,
             {HelperCall(in) : in \in StringsUpTo(ResChars, MaxResLen)})

NextParse == ParseCPU \/ ParseMemory

SpecParse == InitParse /\ [][NextParse]_vars

\* SpecDelete: DeleteJob under every configuration, on a name that is
\* registered or not, with a caller that may give up
DeleteReqs ==
    {RunReq("a", "report", "QQ==", Res("1", "2Gi"), Repeatable, SpecEvery, <<>>),
     DelReq("a"), DelReq("b")}

InitDelete == InitWith({LocalStore, LocalNoStore, Cloud}, {{}}, FALSE)

NextDelete ==
    \/ ReloadList
    \/ Serve
    \/ \E req \in DeleteReqs : Call("w1", req)
    \/ CancelCtx("w1")
    \/ SchedRemove("w1")
    \/ SchedAdd("w1")
    \/ Upsert("w1")
    \/ RunnerRun("w1")
    \/ Record("w1")
    \/ DelSched("w1")
    \/ DelStore("w1")
    \/ DelRunner("w1")
    \/ Return("w1")

SpecDelete == InitDelete /\ [][NextDelete]_vars

\* SpecRace: two RPCs at a time on the name "a": two definitions of the
\* repeatable job, and its deletion
RaceReqs ==
    {RunReq("a", "report", "QQ==", Res("1", "2Gi"), Repeatable, SpecEvery, <<>>),
     RunReq("a", "etl", "QQ==", Res("2", "4Gi"), Repeatable, SpecEven, <<>>),
     DelReq("a")}

InitRace == InitWith({LocalStore}, {{}}, FALSE)

NextRace ==
    \/ ReloadList
    \/ Serve
    \/ \E w \in Workers : \E req \in RaceReqs : Call(w, req)
    \/ \E w \in Workers : SchedRemove(w)
    \/ \E w \in Workers : SchedAdd(w)
    \/ \E w \in Workers : Upsert(w)
    \/ \E w \in Workers : DelSched(w)
    \/ \E w \in Workers : DelStore(w)
    \/ \E w \in Workers : DelRunner(w)
    \/ \E w \in Workers : Return(w)

SpecRace == InitRace /\ [][NextRace]_vars

\* SpecUnreg: a job taken out of the scheduler by DeleteJob or by an empty
\* UpdateSchedule, the history of removals kept, with the clock, the
\* engine's firings and restarts of the process
UnregReqs ==
    {RunReq("a", "report", "QQ==", Res("1", "2Gi"), Repeatable, SpecEvery, <<>>),
     DelReq("a"), UpdReq("a", SpecEmpty)}

InitUnreg ==
    InitBase({LocalStore}, {{}, {StoredRow}}, FALSE, {NoRunner},
             {[NoUnreg EXCEPT !.track = TRUE]})

NextUnreg ==
    \/ ReloadList
    \/ ReloadOne
    \/ Serve
    \/ Restart
    \/ Tick
    \/ \E e \in cron : CronFire(e)
    \/ \E s \in FireSlots : FireRun(s)
    \/ \E s \in FireSlots : FireRecord(s)
    \/ \E req \in UnregReqs : Call("w1", req)
    \/ SchedRemove("w1")
    \/ SchedAdd("w1")
    \/ Upsert("w1")
    \/ DelSched("w1")
    \/ DelStore("w1")
    \/ DelRunner("w1")
    \/ UpdateSchedule("w1")
    \/ Return("w1")

SpecUnreg == InitUnreg /\ [][NextUnreg]_vars

\* SpecBoot: one start of the process over a store that holds up to one row
\* per name, with cron specs that parse and cron specs that do not. Reload
\* is a loop of main's goroutine and the listener starts when it returns:
\* each of its steps is taken once it can be.
BootSpecs == {SpecEvery, SpecEven, SpecBad, SpecEmpty, SpecFive}

BootStores ==
    {ra \cup rb :
        ra \in {{}} \cup {{JobRecord("a", "report", "QQ==", s, "1", "2Gi")} :
                            s \in BootSpecs},
        rb \in {{}} \cup {{JobRecord("b", "etl", "", s, "", "")} :
                            s \in BootSpecs}}

InitBoot == InitWith({LocalStore}, BootStores, TRUE)

NextBoot ==
    \/ ReloadList
    \/ ReloadOne
    \/ Serve

SpecBoot == InitBoot /\ [][NextBoot]_vars /\ WF_vars(NextBoot)

-----------------------------------------------------------------------------
(* Claims.                                                                 *)

\* no handler is running: the states a client sees between RPCs
Quiescent == phase = "serving" /\ \A w \in Workers : rpc[w].pc = "idle"

\* Reload has visited every row and is about to return
ReloadEnds == phase = "boot" /\ boot.pc = "loop" /\ boot.queue = <<>>

\* a RunJob handler is about to answer "scheduled"
AnswersScheduled(w) ==
    /\ rpc[w].pc = "ret"
    /\ rpc[w].req.op = "RunJob"
    /\ rpc[w].resp.ok
    /\ rpc[w].resp.logs = "scheduled"

\* C2: between RPCs, on the local provider with a store, every row of
\* apollo_jobs has exactly one registered trigger of the same name.
C2_EveryRowHasOneTrigger ==
    (Quiescent /\ conf = LocalStore) =>
        \A row \in jobs : Cardinality(Triggers(row.name)) = 1

\* C3: when a repeatable RunJob answers "scheduled" on a server with a store,
\* apollo_jobs holds exactly one row of the request's name, and its command,
\* args_base64, cron_spec, cpu and memory are the request's (cpu and memory
\* after the defaults are filled in).
C3_RowMatchesRequest ==
    \A w \in Workers :
        (AnswersScheduled(w) /\ HasStore) =>
            LET rows == {x \in jobs : x.name = rpc[w].req.name}
            IN  /\ Cardinality(rows) = 1
                /\ \A x \in rows :
                     /\ x.command = rpc[w].req.command
                     /\ x.args_base64 = rpc[w].req.args_base64
                     /\ x.cron_spec = rpc[w].req.schedule
                     /\ x.cpu = rpc[w].r.cpu
                     /\ x.memory = rpc[w].r.memory

\* C4: when a restarted server has finished Reload over the store, every
\* repeatable job that RunJob answered "scheduled", and that no DeleteJob
\* was asked for since, has a trigger registered with the cron spec of its
\* request.
\* (Stated for the jobs whose row is in the store: the claim covers them.)
C4_AcceptedSurviveRestart ==
    (ReloadEnds /\ HasStore) =>
        \A p \in accepted :
            (\E row \in jobs : row.name = p[1]) => p \in TriggerSet(cron)

\* C8: when RunJob fails on a schedule the cron parser rejects, the scheduler
\* holds the triggers, names and specs, it held before Schedule was called.
C8_RejectedSpecLeavesScheduler ==
    \A w \in Workers :
        (/\ rpc[w].pc = "ret"
         /\ rpc[w].req.op = "RunJob"
         /\ rpc[w].resp.err = "parse error") =>
            TriggerSet(cron) = rpc[w].pre

\* C1: whatever the interleaving of RunJob, DeleteJob, UpdateSchedule and
\* Reload, and in the middle of a replacement too, a name has at most one
\* live trigger.
C1_AtMostOneTrigger == \A n \in Names : Cardinality(Triggers(n)) <= 1

\* a replacement of an existing trigger has been made while another
\* handler is in progress
C1_Witness ==
    \E w \in Workers :
        /\ rpc[w].pc = "upsert"
        /\ rpc[w].hadOld
        /\ Cardinality(Triggers(rpc[w].r.name)) = 1
        /\ \E v \in Workers \ {w} : rpc[v].pc \notin {"idle", "ret"}

\* C9: at the end of every Reload each stored name has exactly one trigger,
\* and when the store is as the previous Reload saw it, the scheduler's
\* entries (names and specs) are those the previous Reload left.
C9_ReloadIdempotent ==
    ReloadEnds =>
        /\ \A row \in jobs : Cardinality(Triggers(row.name)) = 1
        /\ (lastReload.done /\ lastReload.jobs = jobs) =>
              TriggerSet(cron) = lastReload.set

\* C10: on the local provider an UpdateSchedule with an empty schedule
\* answers success, leaves no trigger of the name and leaves apollo_jobs as
\* it was; and a row leaves apollo_jobs only in DeleteJob's store delete for
\* its name.
C10_UpdateEmptyKeepsRow ==
    [][/\ \A w \in Workers :
            (/\ rpc[w].pc = "upd"
             /\ rpc'[w].pc = "ret"
             /\ rpc[w].req.schedule = SpecEmpty
             /\ HasSched) =>
                /\ rpc'[w].resp.ok
                /\ \A e \in cron' : e.name # rpc[w].req.name
                /\ rpc[w].req.name \notin DOMAIN entries'
                /\ jobs' = jobs
       /\ \A row \in jobs :
            (\A x \in jobs' : x.name # row.name) =>
                \E w \in Workers :
                    /\ rpc[w].req.op = "DeleteJob"
                    /\ rpc[w].req.name = row.name
                    /\ rpc[w].pc = "del_store"
                    /\ rpc'[w].pc = "del_runner"]_vars

\* the empty UpdateSchedule has removed the trigger of a name whose row is
\* still in the store
C10_Witness ==
    \E w \in Workers :
        /\ rpc[w].pc = "ret"
        /\ rpc[w].req.op = "UpdateSchedule"
        /\ rpc[w].req.schedule = SpecEmpty
        /\ rpc[w].hadOld
        /\ rpc[w].resp.ok
        /\ Triggers(rpc[w].req.name) = {}
        /\ \E row \in jobs : row.name = rpc[w].req.name

\* a RunJob handler that took the synchronous path (line 77 on)
TookSyncPath(w) == rpc[w].req.op = "RunJob" /\ ~TakesSchedulePath(rpc[w].r)

C6_ErrorAfterAuditRow ==
    [][\A w \in Workers :
          (rpc[w].pc = "record" /\ rpc'[w].pc = "ret" /\ HasStore) =>
              /\ rpc[w].runErr # "" => Len(execs') = Len(execs) + 1
              /\ Len(execs') = Len(execs) + 1 =>
                    /\ execs'[Len(execs')].id = rpc[w].r.jobID
                    /\ execs'[Len(execs')].status =
                          IF rpc[w].runErr # "" THEN "error" ELSE "success"]_vars

\* C7: on a server with a store, a firing's callback ends having invoked
\* the runner exactly once and having inserted exactly one ExecutionRecord,
\* for the fired job, whether RunJob or Reload registered the trigger.
C7_FiringRunsAndRecords ==
    [][\A s \in FireSlots :
          (fires[s].pc # "none" /\ fires'[s].pc = "none" /\ HasStore) =>
              /\ (IF fires[s].pc = "run" THEN 1 ELSE fires[s].runs) = 1
              /\ Len(execs') = Len(execs) + 1
              /\ execs'[Len(execs')].name = fires[s].name]_vars

\* C11: on the local provider an UpdateSchedule with a non-empty schedule
\* answers an error and leaves the scheduler's triggers and entries,
\* apollo_jobs and apollo_executions as they were, and its handler has not
\* called the runner.
C11_UpdateNonEmptyChangesNothing ==
    [][\A w \in Workers :
          (/\ rpc[w].pc = "upd"
           /\ rpc'[w].pc = "ret"
           /\ rpc[w].req.schedule # SpecEmpty
           /\ HasSched) =>
              /\ ~rpc'[w].resp.ok
              /\ rpc'[w].resp.err # ""
              /\ cron' = cron
              /\ entries' = entries
              /\ jobs' = jobs
              /\ execs' = execs
              /\ rpc'[w].ran = 0]_vars

\* a non-empty UpdateSchedule has answered its error for a name that has a
\* trigger and a row
C11_Witness ==
    \E w \in Workers :
        /\ rpc[w].pc = "ret"
        /\ rpc[w].req.op = "UpdateSchedule"
        /\ rpc[w].req.schedule # SpecEmpty
        /\ HasSched
        /\ ~rpc[w].resp.ok
        /\ Triggers(rpc[w].req.name) # {}
        /\ \E row \in jobs : row.name = rpc[w].req.name

C13_OneTimeSuccess ==
    [][\A w \in Workers :
          (/\ rpc[w].pc = "record"
           /\ rpc'[w].pc = "ret"
           /\ rpc[w].r.type = "one_time"
           /\ rpc[w].runErr = ""
           /\ HasStore) =>
              /\ rpc'[w].resp.ok
              /\ rpc'[w].resp.id = rpc[w].r.jobID
              /\ rpc'[w].resp.logs = rpc[w].result
              /\ Len(execs') = Len(execs) + 1
              /\ execs'[Len(execs')].id = rpc[w].r.jobID
              /\ execs'[Len(execs')].status = "success"
              /\ jobs' = jobs
              /\ cron' = cron
              /\ entries' = entries]_vars

\* C14: on a server with a scheduler, a RunJob of type REPEATABLE with a
\* schedule that parses answers {id = name, logs = "scheduled"} with exactly
\* one trigger of the name registered, under the request's spec; and the
\* handler has not called the runner at any of its steps (only the firings
\* of the trigger do).
C14_RepeatableRegisters ==
    \A w \in Workers :
        (/\ rpc[w].req.op = "RunJob"
         /\ rpc[w].r.type = "repeatable"
         /\ ParseOK(rpc[w].r.schedule)
         /\ HasSched) =>
            /\ rpc[w].ran = 0
            /\ rpc[w].pc \in {"sched", "sched_add", "upsert", "ret"}
            /\ rpc[w].pc = "ret" =>
                  /\ rpc[w].resp = OkResp(<<rpc[w].r.name>>, "scheduled")
                  /\ Cardinality(Triggers(rpc[w].r.name)) = 1
                  /\ \A e \in Triggers(rpc[w].r.name) :
                        /\ e.spec = rpc[w].r.schedule
                        /\ e.kind = "run"
                        /\ entries[rpc[w].r.name] = e.id

\* a repeatable RunJob answers "scheduled" having replaced the name's
\* trigger, and a firing of an earlier trigger of the name is in progress
C14_Witness ==
    \E w \in Workers :
        /\ rpc[w].pc = "ret"
        /\ rpc[w].req.op = "RunJob"
        /\ rpc[w].resp.logs = "scheduled"
        /\ rpc[w].hadOld
        /\ Cardinality(Triggers(rpc[w].r.name)) = 1
        /\ \E s \in FireSlots :
              fires[s].pc # "none" /\ fires[s].name = rpc[w].r.name

\* C15: the engine never starts a firing of a name for a tick for which it
\* has started one of that name before, neither when RunJob replaced the
\* name's trigger nor when a Reload registered it again in that second.
C15_OneFiringPerTick ==
    [][\A s \in FireSlots :
          (fires[s].pc = "none" /\ fires'[s].pc = "run") =>
              <<fires'[s].name, fires'[s].tick>> \notin fired]_vars

\* a name's trigger has fired in the present second and RunJob has since
\* replaced it
C15_Witness ==
    \E e \in cron :
        /\ <<e.name, now>> \in fired
        /\ e.next > now
        /\ \E w \in Workers :
              /\ rpc[w].pc \in {"upsert", "ret"}
              /\ rpc[w].req.op = "RunJob"
              /\ rpc[w].r.name = e.name
              /\ rpc[w].hadOld

\* C16: the engine can start the firing of every trigger that is due, also
\* while callbacks of earlier firings of the same name are still running
\* (as long as a goroutine slot of the model is free): a due firing waits
\* for no earlier one.
C16_FiringDoesNotWait ==
    \A e \in cron :
        (e.next <= now /\ phase \in {"boot", "serving"} /\ FreeSlots # {}) =>
            ENABLED CronFire(e)

\* the callbacks of two firings of one name, of different ticks, are
\* running at once
C16_Witness ==
    \E s1, s2 \in FireSlots :
        /\ s1 # s2
        /\ fires[s1].pc # "none"
        /\ fires[s2].pc # "none"
        /\ fires[s1].name = fires[s2].name
        /\ fires[s1].tick < fires[s2].tick

\* C17: the callback of every firing runs under a live context, whatever
\* became of the context of the RunJob call that registered the trigger:
\* its runner call is never failed by a cancelled context, and on a server
\* with a store the audit step of a RunJob-registered firing inserts its row.
C17_FiringsUseBackground ==
    [][\A s \in FireSlots :
          /\ fires'[s].pc # "none" =>
                /\ fires'[s].ctx = "live"
                /\ fires'[s].runErr # "context canceled"
          /\ (fires[s].pc = "record" /\ fires'[s].pc = "none" /\ HasStore) =>
                /\ Len(execs') = Len(execs) + 1
                /\ execs'[Len(execs')].name = fires[s].name]_vars

\* the callback of a firing has run and is about to write its audit row;
\* the trigger is the one a RunJob call registered whose context has been
\* cancelled
C17_Witness ==
    \E s \in FireSlots : \E w \in Workers :
        /\ fires[s].pc = "record"
        /\ fires[s].kind = "run"
        /\ rpc[w].pc = "ret"
        /\ rpc[w].req.op = "RunJob"
        /\ rpc[w].ctx = "done"
        /\ ~rpc[w].hadOld
        /\ rpc[w].r.name = fires[s].name

C19_NoStoreIsNoOp ==
    ~HasStore =>
        /\ jobs = {}
        /\ execs = <<>>
        /\ boot.pc # "loop"
        /\ \A e \in cron : e.kind # "reload"
        /\ \A w \in Workers :
              rpc[w].pc = "ret" =>
                 /\ rpc[w].req.op = "ListSchedules" =>
                       rpc[w].resp = ItemsResp(<<>>)
                 /\ (rpc[w].req.op = "DeleteJob" /\ HasSched) => rpc[w].resp.ok
                 /\ (/\ rpc[w].req.op = "RunJob"
                     /\ rpc[w].r.type = "repeatable"
                     /\ ParseOK(rpc[w].r.schedule)
                     /\ HasSched) =>
                        /\ rpc[w].resp = OkResp(<<rpc[w].r.name>>, "scheduled")
                        /\ <<rpc[w].r.name, rpc[w].r.schedule>> \in TriggerSet(cron)

\* without a store, ListSchedules answers while a trigger that RunJob
\* registered is live
C19_Witness ==
    \E w \in Workers :
        /\ ~HasStore
        /\ HasSched
        /\ rpc[w].pc = "ret"
        /\ rpc[w].req.op = "ListSchedules"
        /\ rpc[w].resp.ok
        /\ cron # {}

\* C20: every step of Reload, RunJob, DeleteJob, UpdateSchedule and of a
\* firing leaves the rows apollo_executions holds in place and unchanged
\* (the table only grows at its end), and the audit write of a firing over
\* the store inserts its row also when the table holds a row of the same id.
C20_ExecutionsAppendOnly ==
    [][/\ Len(execs') >= Len(execs)
       /\ SubSeq(execs', 1, Len(execs)) = execs
       /\ \A s \in FireSlots :
            (fires[s].pc = "record" /\ fires'[s].pc = "none" /\ HasStore) =>
                /\ Len(execs') = Len(execs) + 1
                /\ execs'[Len(execs')].id = fires[s].r.jobID]_vars

\* apollo_executions holds two rows of one id
C20_Witness ==
    \E i, j \in 1..Len(execs) : i < j /\ execs[i].id = execs[j].id

\* C21: when a synchronous RunJob is about to return a response, the
\* response's id is the request's job_id if that is non-empty and
\* job-<name>-<unix seconds of the call> otherwise, and on a server with a
\* store the audit row of the run sits in apollo_executions under that id.
C21_ResponseIdIsRequestId ==
    \A w \in Workers :
        (/\ rpc[w].pc = "ret"
         /\ TookSyncPath(w)
         /\ rpc[w].resp.ok) =>
            LET id == IF rpc[w].req.job_id # <<>> THEN rpc[w].req.job_id
                      ELSE GenJobID(rpc[w].req.name, rpc[w].start)
            IN  /\ rpc[w].resp.id = id
                /\ HasStore =>
                     \E i \in 1..Len(execs) :
                        /\ execs[i].id = id
                        /\ execs[i].name = rpc[w].req.name
                        /\ execs[i].started_at = rpc[w].start

\* C22: the rows the firings of a schedule leave in apollo_executions carry
\* ids of their own: each row's id is job-<name>-<the second its firing
\* started>, so two rows of firings that started at different seconds differ
\* in their ids.
C22_FiringIdsPerExecution ==
    /\ \A i \in 1..Len(execs) :
          execs[i].id = GenJobID(execs[i].name, execs[i].started_at)
    /\ \A i, j \in 1..Len(execs) :
          (/\ execs[i].name = execs[j].name
           /\ execs[i].started_at # execs[j].started_at) =>
              execs[i].id # execs[j].id

\* the value that follows flag f in an argument list ("" when f is absent)
FlagValue(argv, f) ==
    LET hits == {i \in 1..(Len(argv) - 1) : argv[i] = f}
    IN  IF hits = {} THEN ""
        ELSE argv[(CHOOSE i \in hits : \A j \in hits : j <= i) + 1]

\* C23: the local backend invocation made for a synchronous RunJob carries,
\* in --cpus and --memory, the cpu and memory of the request's
\* overrides.resources when the request has them, and the request's
\* resources (as the handler filled them) when it has not.
C23_OverrideResourcesUsed ==
    \A w \in Workers :
        (/\ rpc[w].pc \in {"record", "ret"}
         /\ TookSyncPath(w)
         /\ rpc[w].ran > 0
         /\ conf.provider = "local") =>
            LET ov == rpc[w].req.overrides
                want == IF ~ov.nil /\ ~ov.resources.nil
                        THEN [cpu |-> ov.resources.cpu, memory |-> ov.resources.memory]
                        ELSE [cpu |-> rpc[w].r.cpu, memory |-> rpc[w].r.memory]
            IN  /\ FlagValue(rpc[w].argv, "--cpus") = want.cpu
                /\ FlagValue(rpc[w].argv, "--memory") = want.memory

\* docker run: the options that take a value, and where the options end:
\* the index of the first positional argument (the image) at or after i
DockerValueFlags == {"-e", "--memory", "--cpus"}

RECURSIVE ImageIndex(_, _)
ImageIndex(argv, i) ==
    IF i > Len(argv) THEN i
    ELSE IF argv[i] \in DockerValueFlags THEN ImageIndex(argv, i + 2)
    ELSE IF argv[i] = "--rm" THEN ImageIndex(argv, i + 1)
    ELSE i

\* the options of an invocation: the indices of its flags before the image
OptionAt(argv, i, f) == i < ImageIndex(argv, 2) /\ argv[i] = f

\* KEY=VALUE split at its first "="
EqualsAt(arg) ==
    LET eqs == {i \in 1..Len(arg) : SubSeq(arg, i, i) = "="}
    IN  IF eqs = {} THEN Len(arg) + 1
        ELSE CHOOSE i \in eqs : \A j \in eqs : i <= j
EnvKey(arg) == SubSeq(arg, 1, EqualsAt(arg) - 1)
EnvValue(arg) == SubSeq(arg, EqualsAt(arg) + 1, Len(arg))

\* the value the container started by argv sees for variable k: that of
\* the last -e option of that key ("" when there is none)
ContainerEnv(argv, k) ==
    LET hits == {i \in 1..(Len(argv) - 1) :
                    OptionAt(argv, i, "-e") /\ EnvKey(argv[i + 1]) = k}
    IN  IF hits = {} THEN ""
        ELSE EnvValue(argv[(CHOOSE i \in hits : \A j \in hits : j <= i) + 1])

\* the -e options of an invocation, in order
RECURSIVE EnvOptions(_, _)
EnvOptions(argv, i) ==
    IF i >= ImageIndex(argv, 2) \/ i >= Len(argv) THEN <<>>
    ELSE IF argv[i] = "-e" THEN <<argv[i + 1]>> \o EnvOptions(argv, i + 2)
    ELSE IF argv[i] \in DockerValueFlags THEN EnvOptions(argv, i + 2)
    ELSE EnvOptions(argv, i + 1)

\* the value an override list gives name k: that of its last entry for k
OverrideValue(env, k) ==
    LET hits == {i \in DOMAIN env : env[i].name = k}
    IN  env[CHOOSE i \in hits : \A j \in hits : j <= i].value

\* the keys a request's overrides.env and the runner's secrets both hold
Collisions ==
    IF runner.req.overrides.nil THEN {}
    ELSE {runner.Secrets[i].key : i \in DOMAIN runner.Secrets}
           \cap {runner.req.overrides.env[i].name :
                    i \in DOMAIN runner.req.overrides.env}

\* C24: after a backend ran a request, for every key that the merged
\* secrets and the request's overrides.env both hold: on the local backend
\* the -e options are the secrets' followed by the overrides', so the
\* container sees the override's value; on the cloud backend the
\* environment map holds the override's value.
C24_OverrideEnvWins ==
    runner.pc = "called" =>
        /\ conf.provider = "local" =>
             /\ EnvOptions(runner.argv, 2) =
                  [i \in DOMAIN runner.Secrets |->
                     runner.Secrets[i].key \o "=" \o runner.Secrets[i].value]
                  \o (IF runner.req.overrides.nil THEN <<>>
                      ELSE [i \in DOMAIN runner.req.overrides.env |->
                              runner.req.overrides.env[i].name \o "=" \o
                              runner.req.overrides.env[i].value])
             /\ \A k \in Collisions :
                  ContainerEnv(runner.argv, k) =
                     OverrideValue(runner.req.overrides.env, k)
        /\ conf.provider # "local" =>
             \A k \in Collisions :
                  runner.envMap[k] = OverrideValue(runner.req.overrides.env, k)

\* the local backend ran a request whose override gives LOG_LEVEL another
\* value than the merged secret of that key
C24_Witness ==
    /\ runner.pc = "called"
    /\ conf.provider = "local"
    /\ "LOG_LEVEL" \in Collisions
    /\ \E i \in DOMAIN runner.Secrets :
          /\ runner.Secrets[i].key = "LOG_LEVEL"
          /\ runner.Secrets[i].value = "debug"
    /\ ContainerEnv(runner.argv, "LOG_LEVEL") = "warn"

\* C25: the argument list the local backend hands to the container CLI is
\* run --rm, one -e per merged secret, one -e per override env entry,
\* --memory <mem> --cpus <cpu> (the override's resources if present, else
\* the request's), then the image, the entrypoint and the command, then
\* args_base64 if non-empty, then the override's args.
C25_LocalArgumentOrder ==
    (runner.pc = "called" /\ conf.provider = "local") =>
        LET req == runner.req
            ov == req.overrides
            res == IF ~ov.nil /\ ~ov.resources.nil
                   THEN [cpu |-> ov.resources.cpu, memory |-> ov.resources.memory]
                   ELSE [cpu |-> req.cpu, memory |-> req.memory]
        IN  runner.argv =
              <<"run", "--rm">>
              \o EnvFlags([i \in DOMAIN runner.Secrets |->
                    <<runner.Secrets[i].key, runner.Secrets[i].value>>])
              \o (IF ov.nil THEN <<>>
                  ELSE EnvFlags([i \in DOMAIN ov.env |->
                          <<ov.env[i].name, ov.env[i].value>>]))
              \o <<"--memory", res.memory, "--cpus", res.cpu>>
              \o <<JobsImage, JobsCmd, req.command>>
              \o (IF req.args_base64 # "" THEN <<req.args_base64>> ELSE <<>>)
              \o (IF ov.nil THEN <<>> ELSE ov.args)

\* C26: no RunJob request stops the server, a request without a resources
\* message included; the job of a request whose cpu and memory are both
\* empty runs with the resources the config declares for the job's name
\* (250m and 256Mi when it declares none), and the job of any other request
\* with the request's cpu and memory.
C26_EmptyResourcesDefaulted ==
    /\ phase # "down"
    /\ \A w \in Workers :
          rpc[w].req.op = "RunJob" =>
             LET rs == rpc[w].req.resources
                 dflt == GetResourcesFor(rpc[w].req.name)
             IN  IF rs.cpu = "" /\ rs.memory = ""
                 THEN rpc[w].r.cpu = dflt.cpu /\ rpc[w].r.memory = dflt.memory
                 ELSE rpc[w].r.cpu = rs.cpu /\ rpc[w].r.memory = rs.memory

\* a request the contract calls a request error: a RunJob of a JobType
\* outside the enum, a repeatable RunJob whose cron spec does not parse, an
\* UpdateSchedule with a non-empty spec on the local provider
RequestError(req) ==
    \/ req.op = "RunJob" /\ req.type \notin {OneTime, Repeatable}
    \/ /\ req.op = "RunJob"
       /\ req.type = Repeatable
       /\ req.schedule # SpecEmpty
       /\ ~ParseOK(req.schedule)
    \/ /\ req.op = "UpdateSchedule"
       /\ req.schedule # SpecEmpty
       /\ conf.provider = "local"

\* C27: the handler of a request error never calls the runner, and the
\* response it is about to return has the status INVALID_ARGUMENT.
C27_RequestErrorsInvalidArgument ==
    \A w \in Workers :
        RequestError(rpc[w].req) =>
            /\ rpc[w].ran = 0
            /\ rpc[w].pc = "ret" => StatusCode(rpc[w].resp) = "INVALID_ARGUMENT"

\* C28: when Schedule is called with a spec of five cron fields, it
\* succeeds (RunJob goes on to its upsert) and the engine holds for the name
\* the trigger of the six-field spec made of "0" and those five fields.
C28_FiveFieldSpecAccepted ==
    [][\A w \in Workers :
          (/\ rpc[w].pc = "sched_add"
           /\ rpc'[w].pc \in {"upsert", "ret"}
           /\ Len(rpc[w].r.schedule) = 5
           /\ \A i \in 1..5 : rpc[w].r.schedule[i] \in CronFields) =>
              /\ rpc'[w].pc = "upsert"
              /\ \E e \in cron' :
                    /\ e.name = rpc[w].r.name
                    /\ e.spec = <<"0">> \o rpc[w].r.schedule
                    /\ e.next = NextAfter(<<"0">> \o rpc[w].r.schedule, now)]_vars

\* the merged set: the secrets the runner holds
MergedSet == {runner.Secrets[i] : i \in DOMAIN runner.Secrets}

\* C29: once the Secret Merger has run, no key appears twice in the list
\* it returned.
C29_MergedKeysUnique ==
    runner.pc = "ready" =>
        \A i, j \in DOMAIN runner.Secrets :
            i # j => runner.Secrets[i].key # runner.Secrets[j].key

\* the values the provider's list gives key k
FetchedValues(k) ==
    {runner.fetched[i].value :
        i \in {j \in DOMAIN runner.fetched : runner.fetched[j].key = k}}

\* the merge rules applied to the config entry c: the merged set holds the
\* literal of a value without "$"; for a value with "$", the provider's
\* value if the provider has the name, else the environment's value, and no
\* secret of the entry if that is empty
ResolvedAs(c) ==
    IF ~ContainsDollar(c.value) THEN Secret(c.name, c.value) \in MergedSet
    ELSE IF FetchedValues(c.name) # {}
         THEN \E v \in FetchedValues(c.name) : Secret(c.name, v) \in MergedSet
    ELSE IF runner.env[c.name] # ""
         THEN Secret(c.name, runner.env[c.name]) \in MergedSet
    ELSE \A s \in MergedSet :
            s.key = c.name =>
               \E i \in DOMAIN runner.declared :
                  /\ runner.declared[i].name = c.name
                  /\ runner.declared[i].value = s.value

\* C30: once the Secret Merger has run, the merged set holds, for every
\* config-declared secret, the value the merge rules resolve it to.
C30_MergedValuesResolved ==
    runner.pc = "ready" =>
        \A i \in DOMAIN runner.declared : ResolvedAs(runner.declared[i])

\* the first place of the config list that declares name n
FirstDeclared(n) ==
    CHOOSE i \in DOMAIN runner.declared :
        /\ runner.declared[i].name = n
        /\ \A j \in DOMAIN runner.declared :
              runner.declared[j].name = n => i <= j

\* the first place of the merged list that holds key k
FirstMerged(k) ==
    CHOOSE p \in DOMAIN runner.Secrets :
        /\ runner.Secrets[p].key = k
        /\ \A q \in DOMAIN runner.Secrets :
              runner.Secrets[q].key = k => p <= q

\* the config list declares no name twice
DeclaredOnce ==
    \A i, j \in DOMAIN runner.declared :
        i # j => runner.declared[i].name # runner.declared[j].name

\* C31: once the Secret Merger has run on a config list that declares each
\* name once, two keys of the merged list stand in the order in which the
\* config list declares their names.
C31_MergedInDeclaredOrder ==
    (runner.pc = "ready" /\ DeclaredOnce) =>
        \A a, b \in {s.key : s \in MergedSet} :
            FirstDeclared(a) < FirstDeclared(b) => FirstMerged(a) < FirstMerged(b)

\* C32: toFiveFieldCron returns a spec of six fields without its first field
\* (the five fields that follow, in order), and a spec of five fields as it
\* was given.
C32_ToFiveFieldLaw ==
    (runner.pc = "returned" /\ runner.helper = "toFiveFieldCron") =>
        /\ Len(Fields(runner.in)) = 6 =>
              Fields(runner.out) = Tail(Fields(runner.in))
        /\ Len(Fields(runner.in)) = 5 => runner.out = runner.in

\* a six-field spec whose first two fields differ has been converted
C32_Witness ==
    /\ runner.pc = "returned"
    /\ runner.helper = "toFiveFieldCron"
    /\ Len(Fields(runner.in)) = 6
    /\ Fields(runner.in)[1] # Fields(runner.in)[2]
    /\ Len(Fields(runner.out)) = 5

\* a bare integer: one digit or more and nothing else
IsBareInteger(s) ==
    s # "" /\ \A i \in 1..Len(s) : CharAt(s, i) \in Digits

\* s is a bare integer followed by exactly the unit
HasUnit(s, unit) == HasSuffix(s, unit) /\ IsBareInteger(TrimSuffix(s, unit))

\* the laws of parseCPU: n cores are n*1000, "<n>m" is n, else 1000
CPULaw(in, out) ==
    IF IsBareInteger(in) THEN out = Decimal(in) * 1000
    ELSE IF HasUnit(in, "m") THEN out = Decimal(TrimSuffix(in, "m"))
    ELSE out = 1000

\* the laws of parseMemory: "<n>Gi" is n*1024, "<n>Mi" is n, else 512
MemoryLaw(in, out) ==
    IF HasUnit(in, "Gi") THEN out = Decimal(TrimSuffix(in, "Gi")) * 1024
    ELSE IF HasUnit(in, "Mi") THEN out = Decimal(TrimSuffix(in, "Mi"))
    ELSE out = 512

\* C33: parseCPU and parseMemory return what the resource-parsing laws give
\* for their argument, the default for every argument of another form.
C33_ResourceParsingLaws ==
    runner.pc = "returned" =>
        /\ runner.helper = "parseCPU" => CPULaw(runner.in, runner.out)
        /\ runner.helper = "parseMemory" => MemoryLaw(runner.in, runner.out)

\* the errors runner.DeleteJob returns
RunnerDeleteErrors == {"delete failed", "context canceled"}

\* C34: when DeleteJob reaches its call of runner.DeleteJob, and from then
\* on, the name has no trigger and no row (a row is left only if the store's
\* delete failed, which the handler ignores); the RPC fails only with the
\* error of runner.DeleteJob, never with the store's.
C34_RemovalsBeforeRunnerDelete ==
    (rpc["w1"].req.op = "DeleteJob" /\ rpc["w1"].pc \in {"del_runner", "ret"}) =>
        /\ Triggers(rpc["w1"].req.name) = {}
        /\ rpc["w1"].req.name \notin DOMAIN entries
        /\ (\E row \in jobs : row.name = rpc["w1"].req.name) =>
              rpc["w1"].ctx = "done"
        /\ (rpc["w1"].pc = "ret" /\ ~rpc["w1"].resp.ok) =>
              /\ rpc["w1"].resp.err \in RunnerDeleteErrors
              /\ conf.provider # "local"

\* DeleteJob of a name that had a trigger and a row is about to call the
\* runner, both removed
C34_Witness ==
    /\ rpc["w1"].req.op = "DeleteJob"
    /\ rpc["w1"].pc = "del_runner"
    /\ rpc["w1"].hadOld
    /\ rpc["w1"].ctx = "live"
    /\ HasStore
    /\ jobs = {}
    /\ cron = {}

\* C35: a synchronous RunJob that has its response answers from the
\* runner's outcome alone, whether or not the audit row was written: the
\* runner's output under the job's id after a successful run, the runner's
\* error after a failed one.
C35_AuditFailureNotInResponse ==
    \A w \in Workers :
        (rpc[w].pc = "ret" /\ rpc[w].req.op = "RunJob"
           /\ ~TakesSchedulePath(rpc[w].r)) =>
            IF rpc[w].runErr = ""
            THEN /\ rpc[w].resp.ok
                 /\ rpc[w].resp.logs = rpc[w].result
                 /\ rpc[w].result = "output"
                 /\ rpc[w].resp.id = rpc[w].r.jobID
            ELSE /\ ~rpc[w].resp.ok
                 /\ rpc[w].resp.err = rpc[w].runErr
                 /\ rpc[w].runErr \in {"run failed", "context canceled"}

\* a run succeeded, its audit write failed on a server with a store, and the
\* response carries the run's output
C35_Witness ==
    \E w \in Workers :
        /\ rpc[w].pc = "ret"
        /\ rpc[w].req.op = "RunJob"
        /\ HasStore
        /\ rpc[w].runErr = ""
        /\ rpc[w].resp.ok
        /\ rpc[w].resp.logs = "output"
        /\ \A i \in DOMAIN execs : execs[i].id # rpc[w].resp.id

\* C36: on a server with a store, a RunJob of type REPEATABLE with an empty
\* schedule runs once like a one-shot: its audit step inserts exactly one
\* apollo_executions row, of the job's id, apollo_jobs and the scheduler's
\* triggers stay as they were, and a successful run answers the runner's
\* output.
C36_RepeatableWithoutSchedule ==
    [][\A w \in Workers :
          (/\ rpc[w].pc = "record"
           /\ rpc'[w].pc = "ret"
           /\ rpc[w].r.type = "repeatable"
           /\ rpc[w].r.schedule = SpecEmpty
           /\ HasStore) =>
              /\ rpc[w].ran = 1
              /\ Len(execs') = Len(execs) + 1
              /\ execs'[Len(execs')].id = rpc[w].r.jobID
              /\ jobs' = jobs
              /\ cron' = cron
              /\ entries' = entries
              /\ rpc[w].runErr = "" =>
                    /\ rpc'[w].resp.ok
                    /\ rpc'[w].resp.logs = rpc[w].result]_vars

\* both workers have returned from an RPC on the same name
BothReturned(op1, op2) ==
    /\ rpc["w1"].pc = "ret"
    /\ rpc["w2"].pc = "ret"
    /\ rpc["w1"].req.op = op1
    /\ rpc["w2"].req.op = op2
    /\ rpc["w1"].req.name = rpc["w2"].req.name

\* C37: when two repeatable RunJob calls for one name with different
\* definitions have both returned, the apollo_jobs row of the name holds the
\* command and the resources of the request behind the name's live trigger.
C37_StoreAndSchedulerAgree ==
    (BothReturned("RunJob", "RunJob") /\ rpc["w1"].r # rpc["w2"].r) =>
        \A e \in Triggers(rpc["w1"].req.name) :
            \A row \in jobs :
                row.name = e.name =>
                    /\ row.command = e.r.command
                    /\ row.cpu = e.r.cpu
                    /\ row.memory = e.r.memory

\* C38: when a repeatable RunJob and a DeleteJob for one name have both
\* returned, the name has a live trigger and a row, or neither.
C38_TriggerAndRowTogether ==
    (BothReturned("RunJob", "DeleteJob") \/ BothReturned("DeleteJob", "RunJob")) =>
        LET n == rpc["w1"].req.name
        IN  (Triggers(n) # {}) <=> (\E row \in jobs : row.name = n)

\* the names of which this step starts a firing
FiringStarts == {p[1] : p \in fired' \ fired}

C40_ReloadSkipsBadRows ==
    /\ [](ReloadEnds =>
            \A row \in jobs :
                IF ParseOK(row.cron_spec)
                THEN \E e \in Triggers(row.name) :
                        e.spec = row.cron_spec /\ e.kind = "reload"
                ELSE Triggers(row.name) = {})
    /\ [][(boot.pc = "loop" /\ boot'.pc = "loop") =>
             /\ boot.queue # <<>>
             /\ boot'.queue = Tail(boot.queue)]_vars
    /\ [](boot.pc = "loop" => Len(boot.queue) <= Cardinality(jobs))
    /\ (phase = "boot") ~> (phase = "serving")

\* Reload has returned over a store whose first row fails to parse and
\* whose second row parses and is registered
C40_Witness ==
    /\ phase = "serving"
    /\ \E ra, rb \in jobs :
          /\ ra.name = "a"
          /\ rb.name = "b"
          /\ ~ParseOK(ra.cron_spec)
          /\ ParseOK(rb.cron_spec)
          /\ Triggers("a") = {}
          /\ \E e \in Triggers("b") : e.spec = rb.cron_spec

=============================================================================
